---- MODULE Spec2Model ----
(***************************************************************************)
(* Tender-Radar ingestion pipeline: the upstream client (retrying _get,    *)
(* paginate, get_journal, fetch_by_id), BackfillETL.run with its six       *)
(* checkpointed loaders, and IncrementalETL.run.                           *)
(*                                                                         *)
(* Fault model: an upstream call may fail on any attempt, the commit of a  *)
(* page's upsert may fail, and the process may be interrupted between any  *)
(* two steps.  The bookkeeping writes (_start_run, _finish_run,            *)
(* _save_cursor, _update_cursor) are taken to succeed when they run.       *)
(***************************************************************************)
EXTENDS Integers, Sequences, FiniteSets, TLC

VARIABLES
    upstream,         \* shape of the unchanged upstream data set
    store,            \* normalized tables: table name -> set of rows
    cursors,          \* etl_cursors: source_name -> cursor_value (0: no row)
    runs,             \* etl_runs: sequence of rows, run id = index
    now,              \* logical clock behind datetime.utcnow()
    pc,               \* position of the invocation in progress
    window,           \* <<date_from, date_to>> of the invocation in progress
    src,              \* index in BackfillSources of the loader in progress
    url,              \* page the paginate generator is at (0: none)
    attempt,          \* attempts made by the _get call in progress
    lastErr,          \* failure of the latest attempt of the call in progress
    summary,          \* the run's summary dict
    journal_entries,  \* list returned by get_journal
    idx,              \* position of IncrementalETL.run in journal_entries
    outcome,          \* how the latest invocation ended
    fb,               \* fetch_by_id call in progress / finished
    hist,             \* history: what the latest two invocations started from and did
    committed,        \* history: <<source, page, window>> of every committed batch
    target,           \* column-level view: the table the deliveries go to
    table,            \* column-level view: the rows of that table
    dl,               \* column-level view: history of the deliveries
    cfg,              \* scoring: the weight table and thresholds loaded at start
    sdb,              \* scoring: the lots and contracts the engine reads
    facts,            \* scoring: indicator codes whose rule holds in the other tables
    risk_flags,       \* scoring: the committed Risk Flag rows, in insertion order
    risk_scores,      \* scoring: the committed Risk Score rows
    fe,               \* scoring: FeatureEngine.run in progress (lot_ids left, summary)
    sh,               \* scoring: history of the compute_lot_score passes
    idb,              \* indicators: the tables an indicator call reads
    ir,               \* indicators: the latest indicator call and its result
    ops               \* history: the row operations applied, in order

vars == <<upstream, store, cursors, runs, now, pc, window, src, url, attempt,
          lastErr, summary, journal_entries, idx, outcome, fb, hist, committed,
          target, table, dl, cfg, sdb, facts, risk_flags, risk_scores, fe, sh,
          idb, ir, ops>>

\* The variables of the column-level view of one table
upsertVars == <<target, table, dl>>

\* The variables of the scoring engine
scoreVars == <<cfg, sdb, facts, risk_flags, risk_scores, fe, sh>>

\* The variables of a single indicator call
indVars == <<idb, ir>>

-----------------------------------------------------------------------------
(* Bounds                                                                  *)

NPages == 2
ItemsPerPage == 3
MaxRuns == 2
MaxObjId == 7
MaxRowId == 2
MaxVersions == 2
MaxDeliveries == 2
MaxTriggered == 4
MaxPasses == 2

(* Program constants                                                       *)

etl_max_retries == 3

-----------------------------------------------------------------------------
(* Upstream data                                                           *)

BackfillSources == <<"trd_buy", "lots", "trd_app", "contract", "rnu", "treasury_pay">>

SourceSet == {BackfillSources[i] : i \in 1..Len(BackfillSources)}

CursorName ==
    [trd_buy |-> "backfill_trd_buy", lots |-> "backfill_lots",
     trd_app |-> "backfill_trd_app", contract |-> "backfill_contracts",
     rnu |-> "backfill_rnu", treasury_pay |-> "backfill_treasury_pay"]

BackfillCursorNames == {CursorName[s] : s \in SourceSet}

JournalCursorName == "journal"

None == 0

Windows == {<<1, 1>>, <<1, 2>>}

\* One upstream data set: every source has NPages pages of ItemsPerPage
\* items, except that one page may carry no items and one source may have a
\* single page.
Upstreams ==
    {[empty |-> <<"none", 0>>, short |-> "none"]}
    \cup {[empty |-> <<"trd_app", p>>, short |-> "none"] : p \in {1, NPages}}
    \cup {[empty |-> <<"none", 0>>, short |-> "contract"]}

LastPage(up, s) == IF up.short = s THEN 1 ELSE NPages

PageIds(up, s, p) ==
    IF up.empty = <<s, p>> \/ p < 1 \/ p > LastPage(up, s) THEN {}
    ELSE {(p - 1) * ItemsPerPage + k : k \in 1..ItemsPerPage}

\* 0 stands for a missing date
DateOf(id) == id % 3

Item(s, id) ==
    [id |-> id, date |-> DateOf(id), fixed |-> 10 * id, mut |-> 10 * id + 1,
     index_date |-> 1 + (id % 2)]

\* The JSON body of page p of source s: {items: [...], next_page: <token>}
Response(up, s, p) ==
    [items |-> {Item(s, id) : id \in PageIds(up, s, p)},
     next_page |-> IF p < LastPage(up, s) THEN p + 1 ELSE None]

-----------------------------------------------------------------------------
(* Normalization and upsert                                                *)

Tables == {"trd_buy", "lots", "trd_app", "trd_app_lot", "contract", "rnu", "treasury_pay",
           "subject"}

\* `if pub_date and not (date_from <= pub_date <= date_to): continue`
InWindow(d, w) == d = None \/ (w[1] <= d /\ d <= w[2])

DateFiltered(s) == s \in {"trd_buy", "contract"}

\* Mutant: the backfill rows stamped with utcnow(), as the incremental rows are
RowOf_UtcNow(s, item, clock) ==
    CASE s \in {"trd_buy", "lots", "contract"} ->
            [id |-> item.id, fixed |-> item.fixed, mut |-> item.mut,
             last_update_at |-> clock, is_deleted |-> FALSE]
      [] s = "trd_app" ->
            [id |-> item.id, fixed |-> item.fixed, last_update_at |-> clock]
      [] s = "trd_app_lot" ->
            [id |-> item.id, trd_app_id |-> item.id, fixed |-> item.fixed, mut |-> item.mut]
      [] s = "rnu" ->
            [id |-> item.id, fixed |-> item.fixed, mut |-> item.mut, is_active |-> TRUE]
      [] s = "treasury_pay" ->
            [id |-> item.id, fixed |-> item.fixed, mut |-> item.mut]

RowOf(s, item, clock) ==
    CASE s \in {"trd_buy", "lots", "contract"} ->
            [id |-> item.id, fixed |-> item.fixed, mut |-> item.mut,
             last_update_at |-> item.index_date, is_deleted |-> FALSE]
      [] s = "trd_app" ->
            [id |-> item.id, fixed |-> item.fixed, last_update_at |-> item.index_date]
      [] s = "trd_app_lot" ->
            [id |-> item.id, trd_app_id |-> item.id, fixed |-> item.fixed, mut |-> item.mut]
      [] s = "rnu" ->
            [id |-> item.id, fixed |-> item.fixed, mut |-> item.mut, is_active |-> TRUE]
      [] s = "treasury_pay" ->
            [id |-> item.id, fixed |-> item.fixed, mut |-> item.mut]

\* Mutant: is_deleted among the columns the conflict clause overwrites
ConflictCols_WithDeleted(t) ==
    CASE t \in {"trd_buy", "lots", "contract", "subject"} ->
            {"mut", "last_update_at", "is_deleted"}
      [] t = "trd_app" -> {"last_update_at"}
      [] t = "trd_app_lot" -> {"mut"}
      [] t = "rnu" -> {"mut", "is_active"}
      [] t = "treasury_pay" -> {"mut"}

\* Columns of the on_conflict_do_update set_ of each loader
ConflictCols(t) ==
    CASE t \in {"trd_buy", "lots", "contract", "subject"} -> {"mut", "last_update_at"}
      [] t = "trd_app" -> {"last_update_at"}
      [] t = "trd_app_lot" -> {"mut"}
      [] t = "rnu" -> {"mut", "is_active"}
      [] t = "treasury_pay" -> {"mut"}

\* INSERT ... ON CONFLICT (id) DO UPDATE SET <ConflictCols>
Upsert(t, tbl, rows) ==
    LET ids == {r.id : r \in rows}
        merged(new) ==
            IF \E old \in tbl : old.id = new.id
            THEN LET old == CHOOSE o \in tbl : o.id = new.id
                 IN [f \in DOMAIN old |-> IF f \in ConflictCols(t) THEN new[f] ELSE old[f]]
            ELSE new
    IN {r \in tbl : r.id \notin ids} \cup {merged(new) : new \in rows}

\* Rows a loader builds from one yielded batch
PageRows(s, items, w, clock) ==
    {RowOf(s, it, clock) : it \in {i \in items : ~DateFiltered(s) \/ InWindow(i.date, w)}}

\* app_lots children of a trd_app batch (one child per application here)
AppLotRows(items, clock) == {RowOf("trd_app_lot", it, clock) : it \in items}

\* The store after a loader has executed and committed one batch
CommitPage(st, s, items, w, clock) ==
    LET st1 == [st EXCEPT ![s] = Upsert(s, st[s], PageRows(s, items, w, clock))]
    IN IF s = "trd_app"
       THEN [st1 EXCEPT !["trd_app_lot"] =
                Upsert("trd_app_lot", st1["trd_app_lot"], AppLotRows(items, clock))]
       ELSE st1

\* _get_cursor: the stored value, or None when there is no row
GetCursor(cur, name) == cur[name]

\* _save_cursor: `if not cursor_value: return`, else upsert the row
SaveCursor(cur, name, value) ==
    IF value = None THEN cur ELSE [cur EXCEPT ![name] = value]

\* Mutant: the stored cursor read as the last page consumed, not the next one
StartUrl_PastCursor(start_cursor) == IF start_cursor # None THEN start_cursor + 1 ELSE 1

\* endpoint = start_cursor if start_cursor else "/v3/..." (page 1)
StartUrl(start_cursor) == IF start_cursor # None THEN start_cursor ELSE 1

-----------------------------------------------------------------------------
(* Upstream client: one network attempt and the retry policy of _get      *)

\* What one network attempt can end in: a JSON body, a timeout or connection
\* error (httpx.TransportError), raise_for_status on a 5xx or on a 4xx/404
\* (httpx.HTTPStatusError), or an exception that is no httpx error at all
\* (response.json() failing).
AttemptOutcomes == {"ok", "timeout", "status5xx", "status404", "decode"}

\* httpx.HTTPError and its subclasses (TimeoutException, HTTPStatusError)
HttpxErrors == {"timeout", "status5xx", "status404"}

\* The failures the spec calls transport-level: timeouts, 5xx, connection errors
TransportLevel == {"timeout", "status5xx"}

\* retry=retry_if_exception_type((httpx.HTTPError, httpx.TimeoutException))
RetryIf(err) == err \in HttpxErrors

\* stop=stop_after_attempt(settings.etl_max_retries)
StopAfterAttempt(made) == made >= etl_max_retries

\* What the decorated _get does after one more attempt ended in `out`, `made`
\* attempts having been made before it: return the body, raise the exception
\* itself (not retried), raise tenacity.RetryError (retries exhausted; reraise
\* is not set), or wait and try again.
GetAfter(made, out) ==
    CASE out = "ok" -> "return"
      [] out # "ok" /\ ~RetryIf(out) -> "raise"
      [] out # "ok" /\ RetryIf(out) /\ StopAfterAttempt(made + 1) -> "raise_retry_error"
      [] OTHER -> "retry"

\* The exception leaving _get: its type and, for RetryError, the last failure
ExcOf(made, out) ==
    IF GetAfter(made, out) = "raise_retry_error"
    THEN [type |-> "RetryError", cause |-> out]
    ELSE [type |-> out, cause |-> out]

NoErr == "none"

-----------------------------------------------------------------------------
(* Run tracking                                                            *)

\* _start_run: one row, status "running", summary = the window
StartRun(rs, run_type, w) ==
    Append(rs, [run_type |-> run_type, status |-> "running",
                summary |-> [date_from |-> w[1], date_to |-> w[2]]])

\* Mutant: the UPDATE without its WHERE clause
FinishRun_NoWhere(rs, run_id, status, sm) ==
    [i \in DOMAIN rs |-> [rs[i] EXCEPT !.status = status, !.summary = sm]]

\* _finish_run: UPDATE etl_runs SET status, summary_jsonb WHERE id = run_id
FinishRun(rs, run_id, status, sm) ==
    [rs EXCEPT ![run_id] = [@ EXCEPT !.status = status, !.summary = sm]]

RunId == Len(runs)

NewHist(kind, w) ==
    [kind |-> kind, window |-> w, start_store |-> store, start_cursors |-> cursors,
     fetched |-> {}, upserted |-> {},
     journal_ok |-> FALSE, journal |-> <<>>, attempted |-> <<>>, raised |-> 0,
     raisedAt |-> {}]

NoteFetched(h, s, p) == [h EXCEPT ![Len(h)].fetched = @ \cup {<<s, p>>}]

\* The history keeps the latest two invocations
Remember(h, new) == IF Len(h) > 1 THEN <<h[Len(h)], new>> ELSE Append(h, new)

NoteUpserted(h, s, ids) == [h EXCEPT ![Len(h)].upserted = @ \cup {<<s, i>> : i \in ids}]

NoteJournal(h, entries) ==
    [h EXCEPT ![Len(h)].journal_ok = TRUE, ![Len(h)].journal = entries]

NoteAttempted(h, entry, raised) ==
    [h EXCEPT ![Len(h)].attempted = Append(@, entry),
              ![Len(h)].raised = IF raised THEN @ + 1 ELSE @,
              ![Len(h)].raisedAt = IF raised THEN @ \cup {Len(h[Len(h)].attempted) + 1} ELSE @]

-----------------------------------------------------------------------------
(* Scoring engine: configuration and the part of the store it reads        *)

\* The indicator codes, in the order compute_lot_score puts them into flags
IndicatorCodes ==
    <<"DUMPING_FLAG",
      "SHORT_DEADLINE", "FEW_BIDS", "LOT_SPLITTING", "LAST_MINUTE_CHANGES",
      "COMMON_REQUISITES",
      "RECURRING_WINNER", "CAROUSEL_PATTERN",
      "SUPPLIER_CONCENTRATION", "RNU_FLAG", "HIGH_WIN_RATE_FEW_BIDS",
      "NEW_COMPANY_BIG_CONTRACT",
      "ADDENDUM_VALUE_INCREASE", "WIN_MIN_THEN_ADDENDUM", "WEIRD_EXECUTION_TIME",
      "PAYMENT_WITHOUT_ACT">>

CodeSet == {IndicatorCodes[i] : i \in 1..Len(IndicatorCodes)}

\* weights.yaml, three ways: graded weights for all sixteen indicators;
\* equal weights with the widest thresholds; a table that configures only
\* three indicators (WEIGHTS.get(code, 0) covers the others)
Configs ==
    {[weights |-> [i \in 1..Len(IndicatorCodes) |-> 5 + 5 * (i % 3)],
      low_max |-> 30, medium_max |-> 60],
     [weights |-> [i \in 1..Len(IndicatorCodes) |-> 1],
      low_max |-> 0, medium_max |-> 99],
     [weights |-> <<2, 3, 5>>, low_max |-> 30, medium_max |-> 60]}

LotRow(id, trd_buy_id, customer_bin, is_deleted) ==
    [id |-> id, trd_buy_id |-> trd_buy_id, customer_bin |-> customer_bin,
     is_deleted |-> is_deleted]

ContractRow(id, trd_buy_id, supplier_biin, root_id, contract_sum_wnds, is_deleted) ==
    [id |-> id, trd_buy_id |-> trd_buy_id, supplier_biin |-> supplier_biin,
     root_id |-> root_id, contract_sum_wnds |-> contract_sum_wnds,
     is_deleted |-> is_deleted]

EmptyDb == [lots |-> {}, contracts |-> {}]

\* Lot 1 alone; with its tender; with customer, contract 1 (an addendum of
\* root contract 2, sum 150 against 100) and the root live, soft-deleted or
\* not ingested; and soft-deleted with a contract that names no supplier
ScoreDbs ==
    {[lots |-> {LotRow(1, None, None, FALSE)}, contracts |-> {}],
     [lots |-> {LotRow(1, 1, None, FALSE)}, contracts |-> {}],
     [lots |-> {LotRow(1, 1, 1, TRUE)},
      contracts |-> {ContractRow(1, 1, None, None, 150, FALSE)}]}
    \cup {[lots |-> {LotRow(1, 1, 1, FALSE)},
           contracts |-> {ContractRow(1, 1, 1, 2, 150, FALSE)} \cup root] :
              root \in {{}, {ContractRow(2, 2, 1, None, 100, FALSE)},
                             {ContractRow(2, 2, 1, None, 100, TRUE)}}}

\* The rules of the fifteen indicators that read the other tables: those
\* that hold, at most MaxTriggered of them, or all of them
FactSets ==
    {f \in SUBSET (CodeSet \ {"ADDENDUM_VALUE_INCREASE"}) : Cardinality(f) <= MaxTriggered}
    \cup {CodeSet \ {"ADDENDUM_VALUE_INCREASE"}}

FeIdle == [pc |-> "idle"]

EmptyStore == [t \in Tables |-> {}]

NoCursors == [n \in BackfillCursorNames \cup {JournalCursorName} |-> None]

\* Ingestion and the column-level view before anything has run
InitIngest ==
    /\ upstream \in Upstreams
    /\ store = EmptyStore
    /\ cursors = NoCursors
    /\ runs = <<>>
    /\ now = 0
    /\ pc = "idle"
    /\ window = <<0, 0>>
    /\ src = 0
    /\ url = None
    /\ attempt = 0
    /\ lastErr = NoErr
    /\ summary = <<>>
    /\ journal_entries = <<>>
    /\ idx = 0
    /\ outcome = "none"
    /\ fb = [state |-> "idle"]
    /\ hist = <<>>
    /\ committed = {}
    /\ ops = <<>>
    /\ target = "none"
    /\ table = {}
    /\ dl = [vers |-> [i \in 1..MaxRowId |-> {}], first |-> {}, last |-> <<>>]

\* The risk tables are empty and no recompute is running
InitRisk ==
    /\ risk_flags = <<>>
    /\ risk_scores = {}
    /\ fe = FeIdle
    /\ sh = <<>>

\* No indicator is being called on its own
InitNoCall ==
    /\ idb = <<>>
    /\ ir = <<>>

Init ==
    /\ InitIngest
    /\ InitRisk
    /\ InitNoCall
    /\ cfg = CHOOSE c \in Configs : c.low_max > 0 /\ Len(c.weights) = Len(IndicatorCodes)
    /\ sdb = EmptyDb
    /\ facts = {}

-----------------------------------------------------------------------------
(* BackfillETL.run                                                         *)

CurSource == BackfillSources[src]

\* run(): summary = {}; run_id = await self._start_run()
BackfillInvoke(w) ==
    /\ pc = "idle"
    /\ Len(runs) < MaxRuns
    /\ runs' = StartRun(runs, "backfill", w)
    /\ hist' = Remember(hist, NewHist("backfill", w))
    /\ window' = w
    /\ now' = now + 1
    /\ summary' = [count |-> 0, done |-> <<>>]
    /\ src' = 1
    /\ pc' = "bf_load"
    /\ outcome' = "none"
    /\ url' = None /\ attempt' = 0 /\ lastErr' = NoErr
    /\ UNCHANGED <<upstream, store, cursors, journal_entries, idx, fb, committed, upsertVars, scoreVars, indVars, ops>>

\* _load_*: count = 0; start_cursor = _get_cursor(source); endpoint = ...
BfLoad ==
    /\ pc = "bf_load"
    /\ url' = StartUrl(GetCursor(cursors, CursorName[CurSource]))
    /\ summary' = [summary EXCEPT !.count = 0]
    /\ attempt' = 0 /\ lastErr' = NoErr
    /\ pc' = "bf_fetch"
    /\ UNCHANGED <<upstream, store, cursors, runs, now, window, src,
                   journal_entries, idx, outcome, fb, hist, committed, upsertVars, scoreVars, indVars, ops>>

\* The paginate generator moves on after a page whose next_page is `next`:
\* to the next url, or it ends, the loader returns its count and run() calls
\* the next loader or finishes.
Advance(next) ==
    IF next # None
    THEN /\ url' = next
         /\ pc' = "bf_fetch"
         /\ UNCHANGED <<src, summary>>
    ELSE /\ url' = None
         /\ summary' = [count |-> 0, done |-> Append(summary.done, summary.count)]
         /\ IF src < Len(BackfillSources)
            THEN src' = src + 1 /\ pc' = "bf_load"
            ELSE src' = src /\ pc' = "bf_finish"

\* paginate: data = await self._get(url, params), one attempt at a time
BfGet(out) ==
    /\ pc = "bf_fetch"
    /\ LET data == Response(upstream, CurSource, url)
           after == GetAfter(attempt, out)
       IN CASE after = "return" ->
                 /\ attempt' = 0 /\ lastErr' = NoErr
                 /\ hist' = NoteFetched(hist, CurSource, url)
                 /\ IF data.items # {}
                    THEN pc' = "bf_page" /\ UNCHANGED <<url, src, summary>>
                    ELSE Advance(data.next_page)
            [] after = "retry" ->
                 /\ attempt' = attempt + 1 /\ lastErr' = out
                 /\ UNCHANGED <<pc, url, src, summary, hist>>
            [] OTHER ->
                 /\ attempt' = attempt + 1
                 /\ lastErr' = ExcOf(attempt, out).type
                 /\ pc' = "bf_fail"
                 /\ UNCHANGED <<url, src, summary, hist>>
    /\ UNCHANGED <<upstream, store, cursors, runs, now, window,
                   journal_entries, idx, outcome, fb, committed, upsertVars, scoreVars, indVars, ops>>

\* Does the loader execute a statement for this batch?  trd_app commits
\* unconditionally, the others only `if rows:`.
HasWrite(s, items, w) == s = "trd_app" \/ PageRows(s, items, w, 0) # {}

\* Loader body for one yielded batch: build rows, upsert, commit, count
BfCommit ==
    /\ pc = "bf_page"
    /\ LET data == Response(upstream, CurSource, url)
           rows == PageRows(CurSource, data.items, window, now)
       IN /\ store' = IF HasWrite(CurSource, data.items, window)
                      THEN CommitPage(store, CurSource, data.items, window, now)
                      ELSE store
          /\ summary' = [summary EXCEPT !.count = @ + Cardinality(rows)]
          /\ hist' = NoteUpserted(hist, CurSource, {r.id : r \in rows})
          /\ committed' = committed \cup {<<CurSource, url, window>>}
    /\ pc' = "bf_save"
    /\ UNCHANGED <<upstream, cursors, runs, now, window, src, url, attempt,
                   lastErr, journal_entries, idx, outcome, fb, upsertVars, scoreVars, indVars, ops>>

\* Mutant: the checkpoint written before the batch is committed, so that a
\* failing commit leaves it behind
BfCommitFail_CheckpointFirst ==
    /\ pc = "bf_page"
    /\ HasWrite(CurSource, Response(upstream, CurSource, url).items, window)
    /\ cursors' = SaveCursor(cursors, CursorName[CurSource],
                             Response(upstream, CurSource, url).next_page)
    /\ lastErr' = "db"
    /\ pc' = "bf_fail"
    /\ UNCHANGED <<upstream, store, runs, now, window, src, url, attempt,
                   summary, journal_entries, idx, outcome, fb, hist, committed, upsertVars, scoreVars, indVars, ops>>

\* db.execute / db.commit raises: nothing of the batch is committed
BfCommitFail ==
    /\ pc = "bf_page"
    /\ HasWrite(CurSource, Response(upstream, CurSource, url).items, window)
    /\ lastErr' = "db"
    /\ pc' = "bf_fail"
    /\ UNCHANGED <<upstream, store, cursors, runs, now, window, src, url, attempt,
                   summary, journal_entries, idx, outcome, fb, hist, committed, upsertVars, scoreVars, indVars, ops>>

\* `if next_cursor: await self._save_cursor(source, next_cursor)`, then the
\* generator is resumed
BfSave ==
    /\ pc = "bf_save"
    /\ LET next == Response(upstream, CurSource, url).next_page
       IN /\ cursors' = SaveCursor(cursors, CursorName[CurSource], next)
          /\ Advance(next)
    /\ UNCHANGED <<upstream, store, runs, now, window, attempt, lastErr,
                   journal_entries, idx, outcome, fb, hist, committed, upsertVars, scoreVars, indVars, ops>>

\* The invocation is over (returned, raised or killed): its locals are gone
Leave(how) ==
    /\ pc' = "idle"
    /\ outcome' = how
    /\ window' = <<0, 0>>
    /\ src' = 0
    /\ url' = None
    /\ attempt' = 0
    /\ lastErr' = NoErr
    /\ summary' = <<>>
    /\ journal_entries' = <<>>
    /\ idx' = 0

\* await self._finish_run(run_id, "success", summary); return summary
BfFinish ==
    /\ pc = "bf_finish"
    /\ runs' = FinishRun(runs, RunId, "success", summary.done)
    /\ Leave("returned")
    /\ UNCHANGED <<upstream, store, cursors, now, fb, hist, committed, upsertVars, scoreVars, indVars, ops>>

\* except Exception as e: _finish_run(run_id, "failed", {"error": str(e)}); raise
BfFail ==
    /\ pc = "bf_fail"
    /\ runs' = FinishRun(runs, RunId, "failed", [error |-> lastErr])
    /\ Leave("raised")
    /\ UNCHANGED <<upstream, store, cursors, now, fb, hist, committed, upsertVars, scoreVars, indVars, ops>>

\* The process is killed between two steps: nothing more is written
Interrupt ==
    /\ pc # "idle"
    /\ Leave("killed")
    /\ UNCHANGED <<upstream, store, cursors, runs, now, fb, hist, committed, upsertVars, scoreVars, indVars, ops>>

-----------------------------------------------------------------------------
(* The journal and IncrementalETL.run                                      *)

Entry(et, id, action) ==
    [type |-> "dict", entity_type |-> et, entity_id |-> id, action |-> action]

\* The change entries upstream recorded on day d
JournalDay(d) ==
    CASE d = 1 -> <<Entry("TrdBuy", 5, "D"), Entry("Lots", 1, "U")>>
      [] d = 2 -> <<Entry("Contract", 2, "D"), Entry("Subject", 3, "U")>>
      [] OTHER -> <<Entry("TrdBuy", d, "U")>>

\* Page p of /v3/journal?date_from=..&date_to=..: one page per day of the range
JournalLastPage(w) == w[2] - w[1] + 1

JournalResponse(w, p) ==
    [items |-> IF p >= 1 /\ p <= JournalLastPage(w) THEN JournalDay(w[1] + p - 1) ELSE <<>>,
     next_page |-> IF p < JournalLastPage(w) THEN p + 1 ELSE None]

\* All change entries of the range, in page order
UpstreamJournal(w) ==
    LET RECURSIVE cat(_)
        cat(p) == IF p > JournalLastPage(w) THEN <<>>
                  ELSE JournalResponse(w, p).items \o cat(p + 1)
    IN cat(1)

\* What paginate yields for a page: the tuple (items, next_url or "")
Yielded(data) ==
    <<[type |-> "list", val |-> data.items], [type |-> "str", val |-> data.next_page]>>

\* get_journal: `async for batch in self.paginate(...): items.extend(batch)`
\* list.extend appends the elements of what the generator yielded
Extend(items, batch) == items \o batch

ENTITY_ENDPOINT_MAP ==
    [TrdBuy |-> "trd_buy", Lots |-> "lots", TrdApp |-> "trd_app",
     Contract |-> "contract", Subject |-> "subject", Rnu |-> "rnu"]

model_map ==
    [TrdBuy |-> "trd_buy", Lots |-> "lots", Contract |-> "contract", Subject |-> "subject"]

\* The object a by-id endpoint holds, if any
ObjExists(up, t, id) ==
    IF t = "subject" THEN id \in 1..ItemsPerPage
    ELSE \E p \in 1..NPages : id \in PageIds(up, t, p)

\* Mutant: a delete of an id that has no row leaves a deleted row behind
SoftDelete_CreatesRow(st, et, id, clock) ==
    IF et \notin DOMAIN model_map THEN st
    ELSE [st EXCEPT ![model_map[et]] =
            {IF r.id = id THEN [r EXCEPT !.is_deleted = TRUE, !.last_update_at = clock]
                          ELSE r : r \in @}
            \cup (IF \E r \in @ : r.id = id THEN {}
                  ELSE {[id |-> id, fixed |-> 0, mut |-> 0, last_update_at |-> clock,
                         is_deleted |-> TRUE]})]

\* _soft_delete: UPDATE model SET is_deleted, last_update_at WHERE id = entity_id
SoftDelete(st, et, id, clock) ==
    IF et \notin DOMAIN model_map THEN st
    ELSE [st EXCEPT ![model_map[et]] =
            {IF r.id = id THEN [r EXCEPT !.is_deleted = TRUE, !.last_update_at = clock]
                          ELSE r : r \in @}]

\* _upsert_trd_buy / _upsert_lot / _upsert_contract / _upsert_subject
IncRow(item, clock) ==
    [id |-> item.id, fixed |-> item.fixed, mut |-> item.mut,
     last_update_at |-> clock, is_deleted |-> FALSE]

\* fetch_by_id returned None
NoObj == [id |-> None]

\* _fetch_and_upsert once fetch_by_id has returned obj (None: absent)
UpsertFetched(st, et, obj, clock) ==
    IF obj = NoObj \/ et \notin DOMAIN model_map THEN st
    ELSE LET t == model_map[et]
         IN [st EXCEPT ![t] = Upsert(t, st[t], {IncRow(obj, clock)})]

Bump(sm, key) == [sm EXCEPT ![key] = @ + 1]

\* run(): summary = {...}; run_id = await self._start_run()
IncInvoke(w) ==
    /\ pc = "idle"
    /\ Len(runs) < MaxRuns
    /\ runs' = StartRun(runs, "incremental", w)
    /\ hist' = Remember(hist, NewHist("incremental", w))
    /\ window' = w
    /\ now' = now + 1
    /\ summary' = [processed |-> 0, updated |-> 0, deleted |-> 0, errors |-> 0]
    /\ journal_entries' = <<>>
    /\ url' = 1
    /\ pc' = "inc_journal"
    /\ outcome' = "none"
    /\ src' = 0 /\ attempt' = 0 /\ lastErr' = NoErr /\ idx' = 0
    /\ UNCHANGED <<upstream, store, cursors, fb, committed, upsertVars, scoreVars, indVars, ops>>

\* get_journal: paginate("/v3/journal", ...), one network attempt at a time
IncGet(out) ==
    /\ pc = "inc_journal"
    /\ LET data == JournalResponse(window, url)
           after == GetAfter(attempt, out)
       IN CASE after = "return" ->
                 /\ attempt' = 0 /\ lastErr' = NoErr
                 /\ journal_entries' = IF data.items # <<>>
                                       THEN Extend(journal_entries, Yielded(data))
                                       ELSE journal_entries
                 /\ IF data.next_page # None
                    THEN url' = data.next_page /\ UNCHANGED <<pc, idx, hist>>
                    ELSE /\ url' = None /\ pc' = "inc_loop" /\ idx' = 1
                         /\ hist' = NoteJournal(hist, journal_entries')
            [] after = "retry" ->
                 /\ attempt' = attempt + 1 /\ lastErr' = out
                 /\ UNCHANGED <<pc, url, journal_entries, idx, hist>>
            [] OTHER ->
                 /\ attempt' = attempt + 1
                 /\ lastErr' = ExcOf(attempt, out).type
                 /\ pc' = "inc_fail"
                 /\ UNCHANGED <<url, journal_entries, idx, hist>>
    /\ UNCHANGED <<upstream, store, cursors, runs, now, window, src, summary,
                   outcome, fb, committed, upsertVars, scoreVars, indVars, ops>>

\* Where IncrementalETL.run goes after `except Exception` has counted a
\* failed entry: on with the loop
EntryErrorPc_Propagate == "inc_fail"

EntryErrorPc == "inc_loop"

\* Does _process_entry raise for this element of journal_entries?  `res` is
\* how fetch_by_id ends for an update entry.
EntryRaises(entry, res) ==
    \/ entry.type # "dict"      \* entry.get: AttributeError on a list or a str
    \/ /\ entry.type = "dict"
       /\ entry.entity_id # None
       /\ entry.action # "D"
       /\ entry.entity_type \in DOMAIN ENTITY_ENDPOINT_MAP
       /\ res = "raise"

\* `not entity_type`: the entry names no entity type
NoEntityType == ""

\* Mutant: _process_entry without its `if not entity_type or not entity_id: return`
ProcessEntry_NoEarlyReturn(st, sm, up, entry, res, clock) ==
    IF entry.action = "D"
    THEN [store |-> SoftDelete(st, entry.entity_type, entry.entity_id, clock),
          summary |-> Bump(sm, "deleted")]
    ELSE IF entry.entity_type \notin DOMAIN ENTITY_ENDPOINT_MAP
    THEN [store |-> st, summary |-> Bump(sm, "updated")]
    ELSE LET t == ENTITY_ENDPOINT_MAP[entry.entity_type]
             obj == IF res = "obj" /\ ObjExists(up, t, entry.entity_id)
                    THEN Item(t, entry.entity_id) ELSE NoObj
         IN [store |-> UpsertFetched(st, entry.entity_type, obj, clock),
             summary |-> Bump(sm, "updated")]

\* _process_entry when it does not raise: the store and the summary after it
ProcessEntry(st, sm, up, entry, res, clock) ==
    IF entry.entity_type = NoEntityType \/ entry.entity_id = None
    THEN [store |-> st, summary |-> sm]
    ELSE IF entry.action = "D"
    THEN [store |-> SoftDelete(st, entry.entity_type, entry.entity_id, clock),
          summary |-> Bump(sm, "deleted")]
    ELSE IF entry.entity_type \notin DOMAIN ENTITY_ENDPOINT_MAP
    THEN [store |-> st, summary |-> Bump(sm, "updated")]
    ELSE LET t == ENTITY_ENDPOINT_MAP[entry.entity_type]
             obj == IF res = "obj" /\ ObjExists(up, t, entry.entity_id)
                    THEN Item(t, entry.entity_id) ELSE NoObj
         IN [store |-> UpsertFetched(st, entry.entity_type, obj, clock),
             summary |-> Bump(sm, "updated")]

\* The statements _process_entry executed for the entry: an UPDATE .. WHERE
\* id = entity_id of _soft_delete, or the INSERT .. ON CONFLICT of _upsert_*
EntryOps(st, up, entry, res) ==
    IF entry.entity_type = NoEntityType \/ entry.entity_id = None THEN <<>>
    ELSE IF entry.action = "D"
    THEN IF entry.entity_type \in DOMAIN model_map
         THEN <<[kind |-> "delete", table |-> model_map[entry.entity_type],
                 ids |-> {entry.entity_id}]>>
         ELSE <<>>
    ELSE IF /\ entry.entity_type \in DOMAIN model_map
            /\ res = "obj"
            /\ ObjExists(up, model_map[entry.entity_type], entry.entity_id)
    THEN <<[kind |-> "upsert", table |-> model_map[entry.entity_type],
            ids |-> {entry.entity_id}]>>
    ELSE <<>>

\* Loop body: try: _process_entry(entry, summary); processed += 1
\*            except Exception: errors += 1
IncProcess(res) ==
    /\ pc = "inc_loop"
    /\ idx <= Len(journal_entries)
    /\ LET entry == journal_entries[idx]
           raises == EntryRaises(entry, res)
       IN /\ IF raises
             THEN /\ summary' = Bump(summary, "errors")
                  /\ store' = store
                  /\ pc' = EntryErrorPc
             ELSE LET after == ProcessEntry(store, summary, upstream, entry, res, now)
                  IN /\ store' = after.store
                     /\ summary' = Bump(after.summary, "processed")
                     /\ pc' = "inc_loop"
          /\ hist' = NoteAttempted(hist, entry, raises)
          /\ ops' = IF raises THEN ops ELSE ops \o EntryOps(store, upstream, entry, res)
    /\ idx' = idx + 1
    /\ UNCHANGED <<upstream, cursors, runs, now, window, src, url, attempt,
                   lastErr, journal_entries, outcome, fb, committed, upsertVars, scoreVars, indVars>>

\* After the loop: await self._update_cursor()
\* Mutant: the journal cursor set to the start of the window
JournalCursorValue_DateFrom(w) == w[1]

\* "cursor_value": self.date_to
JournalCursorValue(w) == w[2]

IncUpdateCursor ==
    /\ pc = "inc_loop"
    /\ idx > Len(journal_entries)
    /\ cursors' = [cursors EXCEPT ![JournalCursorName] = JournalCursorValue(window)]
    /\ pc' = "inc_finish"
    /\ UNCHANGED <<upstream, store, runs, now, window, src, url, attempt, lastErr,
                   summary, journal_entries, idx, outcome, fb, hist, committed, upsertVars, scoreVars, indVars, ops>>

\* await self._finish_run(run_id, "success", summary); return summary
IncFinish ==
    /\ pc = "inc_finish"
    /\ runs' = FinishRun(runs, RunId, "success", summary)
    /\ Leave("returned")
    /\ UNCHANGED <<upstream, store, cursors, now, fb, hist, committed, upsertVars, scoreVars, indVars, ops>>

\* except Exception as e: _finish_run(run_id, "failed", {"error": str(e)}); raise
IncFail ==
    /\ pc = "inc_fail"
    /\ runs' = FinishRun(runs, RunId, "failed", [error |-> lastErr])
    /\ Leave("raised")
    /\ UNCHANGED <<upstream, store, cursors, now, fb, hist, committed, upsertVars, scoreVars, indVars, ops>>

Next ==
    \/ \E w \in Windows : BackfillInvoke(w)
    \/ BfLoad
    \/ \E out \in AttemptOutcomes : BfGet(out)
    \/ BfCommit
    \/ BfCommitFail
    \/ BfSave
    \/ BfFinish
    \/ BfFail
    \/ \E w \in Windows : IncInvoke(w)
    \/ \E out \in AttemptOutcomes : IncGet(out)
    \/ \E res \in {"obj", "absent", "raise"} : IncProcess(res)
    \/ IncUpdateCursor
    \/ IncFinish
    \/ IncFail
    \/ Interrupt

Spec == Init /\ [][Next]_vars

-----------------------------------------------------------------------------
(* OWSClient.fetch_by_id called on its own                                 *)

\* What the by-id endpoint answers on one attempt: the object or a 404,
\* unless the attempt fails in transit
FbOutcomes(up, t, id) ==
    (IF ObjExists(up, t, id) THEN {"ok", "decode"} ELSE {"status404"})
    \cup {"timeout", "status5xx"}

\* fetch_by_id's handler around _get:
\*   except httpx.HTTPStatusError as e: if e.response.status_code == 404: return None; raise
FetchByIdCatch(exc) ==
    IF exc.type = "status404" THEN [kind |-> "None"]
    ELSE [kind |-> "raised", exc |-> exc.type]

FbCall(et, id) ==
    /\ pc = "idle"
    /\ fb.state # "calling"
    /\ fb' = [state |-> "calling", entity |-> et, obj_id |-> id, all404 |-> TRUE]
    /\ attempt' = 0
    /\ lastErr' = NoErr
    /\ UNCHANGED <<upstream, store, cursors, runs, now, pc, window, src, url,
                   summary, journal_entries, idx, outcome, hist, committed, upsertVars, scoreVars, indVars, ops>>

FbGet(out) ==
    /\ fb.state = "calling"
    /\ out \in FbOutcomes(upstream, ENTITY_ENDPOINT_MAP[fb.entity], fb.obj_id)
    /\ LET after == GetAfter(attempt, out)
           all == fb.all404 /\ out = "status404"
       IN /\ attempt' = attempt + 1
          /\ CASE after = "return" ->
                    /\ fb' = [state |-> "done", entity |-> fb.entity, obj_id |-> fb.obj_id,
                              all404 |-> all, calls |-> attempt + 1,
                              result |-> [kind |-> "obj",
                                          val |-> Item(ENTITY_ENDPOINT_MAP[fb.entity], fb.obj_id)]]
                    /\ lastErr' = NoErr
               [] after = "retry" ->
                    /\ fb' = [fb EXCEPT !.all404 = all]
                    /\ lastErr' = out
               [] OTHER ->
                    /\ fb' = [state |-> "done", entity |-> fb.entity, obj_id |-> fb.obj_id,
                              all404 |-> all, calls |-> attempt + 1,
                              result |-> FetchByIdCatch(ExcOf(attempt, out))]
                    /\ lastErr' = out
    /\ UNCHANGED <<upstream, store, cursors, runs, now, pc, window, src, url,
                   summary, journal_entries, idx, outcome, hist, committed, upsertVars, scoreVars, indVars, ops>>

NextFetchById ==
    \/ \E et \in DOMAIN ENTITY_ENDPOINT_MAP, id \in 1..MaxObjId : FbCall(et, id)
    \/ \E out \in AttemptOutcomes : FbGet(out)

SpecFetchById == Init /\ [][NextFetchById]_vars

-----------------------------------------------------------------------------
(* Reference: one uninterrupted backfill                                   *)

RECURSIVE WalkSource(_, _, _, _, _, _)
WalkSource(st, up, s, p, w, clock) ==
    LET data == Response(up, s, p)
        st1 == IF data.items # {} /\ HasWrite(s, data.items, w)
               THEN CommitPage(st, s, data.items, w, clock) ELSE st
    IN IF data.next_page # None
       THEN WalkSource(st1, up, s, data.next_page, w, clock)
       ELSE st1

RECURSIVE WalkAll(_, _, _, _, _)
WalkAll(st, up, k, w, clock) ==
    IF k > Len(BackfillSources) THEN st
    ELSE WalkAll(WalkSource(st, up, BackfillSources[k], 1, w, clock), up, k + 1, w, clock)

\* The items one uninterrupted run upserts
UninterruptedUpserted(up, w) ==
    UNION {{<<s, r.id>> : r \in PageRows(s, Response(up, s, p).items, w, 0)} :
             s \in SourceSet, p \in 1..NPages}

NoBackfillCursor(cur) == \A n \in BackfillCursorNames : cur[n] = None

Finished == pc = "idle" /\ Len(runs) >= 1

LastRun == runs[Len(runs)]
LastHist == hist[Len(hist)]

\* The latest two invocations are backfills over the same window
TwoBackfills ==
    /\ Finished
    /\ Len(hist) >= 2
    /\ hist[Len(hist) - 1].kind = "backfill"
    /\ LastHist.kind = "backfill"
    /\ hist[Len(hist) - 1].window = LastHist.window

\* A backfill that began with no stored cursor was cut short (killed or
\* failed) and the next invocation, over the same window, ran to success
ResumedToSuccess ==
    /\ TwoBackfills
    /\ NoBackfillCursor(hist[Len(hist) - 1].start_cursors)
    /\ runs[Len(runs) - 1].status # "success"
    /\ LastRun.status = "success"

-----------------------------------------------------------------------------
(* Claims                                                                  *)

\* C1: when a backfill that started with no stored cursor is interrupted (at
\* any step, so also after N pages were upserted and checkpointed) and run is
\* invoked again over the same window and succeeds, the two invocations
\* together upserted exactly the items of one uninterrupted run, and the
\* tables equal those the uninterrupted run produces from the same start.
C1_ResumeEquivalent ==
    ResumedToSuccess =>
        /\ hist[Len(hist) - 1].upserted \cup LastHist.upserted
             = UninterruptedUpserted(upstream, LastHist.window)
        /\ store = WalkAll(hist[Len(hist) - 1].start_store, upstream, 1,
                           LastHist.window, now)

\* C1 witness: the first run was cut after it had upserted and checkpointed
\* pages, and the second run resumed from a stored cursor, not from page 1
C1_Witness ==
    /\ ResumedToSuccess
    /\ hist[Len(hist) - 1].upserted # {}
    /\ ~NoBackfillCursor(LastHist.start_cursors)
    /\ LastHist.upserted # UninterruptedUpserted(upstream, LastHist.window)

\* A batch of page p of source s was committed by some invocation and its
\* rows are in the table
PageCommitted(s, p) ==
    \E w \in Windows :
        /\ <<s, p, w>> \in committed
        /\ \A r \in PageRows(s, Response(upstream, s, p).items, w, 0) :
               \E x \in store[s] : x.id = r.id

\* C2: in every reachable state (mid-run, after a failure, after an
\* interruption) the cursor stored for a source designates page P only if
\* every page with items before P has had its batch committed.
C2_CursorBehindCommit ==
    \A s \in SourceSet :
        LET P == cursors[CursorName[s]]
        IN P # None =>
             \A p \in 1..(P - 1) :
                 Response(upstream, s, p).items = {} \/ PageCommitted(s, p)

\* C2 witness: a run failed at the commit of a page while a cursor is stored
\* for that source
C2_Witness ==
    /\ Finished
    /\ LastRun.status = "failed"
    /\ LastRun.summary = [error |-> "db"]
    /\ \E s \in SourceSet : /\ cursors[CursorName[s]] = NPages
                            /\ <<s, NPages>> \in LastHist.fetched
                            /\ \A w \in Windows : <<s, NPages, w>> \notin committed

\* C3 (as claimed): every backfill run that ends with status success has
\* walked each of its six sources from the first page to the last, so that
\* every upstream item dated inside that run's window is in the store
\* afterwards, whatever cursor rows earlier invocations left behind.  The
\* formula is the claim's conclusion: after a successful run no upstream item
\* of the run's window is missing from its table.
C3_SuccessCoversWindow ==
    (Finished /\ LastHist.kind = "backfill" /\ LastRun.status = "success") =>
        \A x \in UninterruptedUpserted(upstream, LastHist.window) :
            \E r \in store[x[1]] : r.id = x[2]

\* C4: with an unchanged upstream, a second successful backfill over the same
\* window leaves every table exactly as the first successful one left it.
C4_SecondRunChangesNothing ==
    (TwoBackfills /\ runs[Len(runs) - 1].status = "success" /\ LastRun.status = "success")
        => store = LastHist.start_store

\* C4 witness: the second successful run did upsert rows again
C4_Witness ==
    /\ TwoBackfills
    /\ runs[Len(runs) - 1].status = "success"
    /\ LastRun.status = "success"
    /\ LastHist.upserted # {}
    /\ store["trd_buy"] # {}

\* The latest invocation is an incremental run that returned or raised
IncDone ==
    /\ Finished
    /\ LastHist.kind = "incremental"
    /\ outcome \in {"returned", "raised"}

\* C5: in IncrementalETL.run, when journal retrieval succeeds with n entries
\* every one of them is attempted, in journal order, whichever of them fail,
\* the run ends with status success and errors is the number of entries whose
\* processing raised; when journal retrieval fails no entry is processed, the
\* run ends with status failed and the exception propagates.
C5_ContinueOnError ==
    /\ (pc = "inc_loop" /\ idx <= Len(journal_entries) + 1) =>
           LastHist.attempted = SubSeq(journal_entries, 1, idx - 1)
    /\ IncDone =>
           IF LastHist.journal_ok
           THEN /\ LastHist.attempted = LastHist.journal
                /\ outcome = "returned"
                /\ LastRun.status = "success"
                /\ LastRun.summary.errors = LastHist.raised
           ELSE /\ LastHist.attempted = <<>>
                /\ outcome = "raised"
                /\ LastRun.status = "failed"

\* C5 witness: a run whose journal came back with four elements, every one of
\* which raised, and which still ended with status success
C5_Witness ==
    /\ IncDone
    /\ LastHist.journal_ok
    /\ Len(LastHist.attempted) = 4
    /\ LastHist.raised = 4
    /\ LastRun.status = "success"

\* C6 (as claimed): get_journal returns the concatenation, in page order, of
\* the change entries of every page: each element is one change entry and
\* each upstream entry appears exactly once.
C6_JournalIsEntries ==
    (Len(hist) >= 1 /\ LastHist.kind = "incremental" /\ LastHist.journal_ok) =>
        LastHist.journal = UpstreamJournal(LastHist.window)

DeleteTender5 == Entry("TrdBuy", 5, "D")

CountAction(entries, a) ==
    Cardinality({i \in 1..Len(entries) : (entries[i].action = "D") = (a = "D")})

\* C7 (as claimed): when the journal of the run's window holds the entry
\* {TrdBuy, 5, D} and Tender 5 is in the store, then after the run Tender 5
\* has is_deleted = true, deleted has gone up by one for that entry (and for
\* each other delete entry) and updated only for the update entries.
C7_DeleteEntryApplied ==
    (/\ IncDone
     /\ outcome = "returned"
     /\ \E i \in 1..Len(UpstreamJournal(LastHist.window)) :
            UpstreamJournal(LastHist.window)[i] = DeleteTender5
     /\ \E r \in LastHist.start_store["trd_buy"] : r.id = 5)
    => /\ \E r \in store["trd_buy"] : r.id = 5 /\ r.is_deleted
       /\ LastRun.summary.deleted = CountAction(UpstreamJournal(LastHist.window), "D")
       /\ LastRun.summary.updated = CountAction(UpstreamJournal(LastHist.window), "U")

\* C8 (as claimed): fetch_by_id, when upstream answers 404 for the id,
\* returns None after a single network call, without retry or exception.
C8_NotFoundIsAbsent ==
    (fb.state = "done" /\ fb.all404) => (fb.result.kind = "None" /\ fb.calls = 1)

\* C9 (as claimed): one upstream call makes at most etl_max_retries network
\* attempts, a further attempt being made only after a transport-level
\* failure (timeout, 5xx, connection error), and when the last attempt has
\* failed the call raises and the run is marked failed.
C9_RetryOnlyTransport ==
    /\ attempt <= etl_max_retries
    /\ (pc \in {"bf_fetch", "inc_journal"} /\ attempt >= 1) => lastErr \in TransportLevel
    /\ (Finished /\ outcome = "raised") => LastRun.status = "failed"

\* C10: each invocation of BackfillETL.run or IncrementalETL.run creates
\* exactly one run row, with status running, before any upstream call; the
\* row's status changes at most once, to success or failed, and a finished
\* row never changes again; and when run raises, the row has been set to
\* failed with the error text as its summary.
C10_RunRecord ==
    [][/\ IF pc = "idle" /\ pc' # "idle"
          THEN /\ Len(runs') = Len(runs) + 1
               /\ runs'[Len(runs')].status = "running"
               /\ attempt' = 0
          ELSE Len(runs') = Len(runs)
       /\ \A i \in 1..Len(runs) :
             /\ runs[i].status # "running" => runs'[i] = runs[i]
             /\ runs'[i].status # runs[i].status =>
                    /\ i = Len(runs)
                    /\ pc # "idle"
                    /\ runs'[i].status \in {"success", "failed"}
       /\ attempt' = attempt + 1 => (Len(runs) >= 1 /\ runs[Len(runs)].status = "running")
       /\ (pc # "idle" /\ outcome' = "raised") =>
             /\ runs'[Len(runs')].status = "failed"
             /\ runs'[Len(runs')].summary = [error |-> lastErr]
      ]_vars

\* C10 witness: a second invocation has raised after its upstream call failed,
\* its row is failed with the error text, and the first row kept its status
C10_Witness ==
    /\ Finished
    /\ Len(runs) = 2
    /\ outcome = "raised"
    /\ runs[1].status = "success"
    /\ runs[2].status = "failed"
    /\ runs[2].summary = [error |-> "RetryError"]

-----------------------------------------------------------------------------
(* The task entry points (tasks.py)                                        *)

\* run_backfill / run_incremental: try: summary = run_async(ETL(...).run());
\* return summary; except Exception as exc: raise self.retry(exc=exc, ...).
\* What the caller of the entry point receives for an outcome of run().
TaskResult(run_outcome) ==
    IF run_outcome = "returned" THEN "summary" ELSE "exception"

\* C11 (as claimed): whatever the outcome of the run behind an entry point,
\* the caller receives a structured summary (counts, or error detail) and no
\* exception escapes the entry point.
C11_EntryPointReturnsSummary ==
    outcome \in {"returned", "raised"} => TaskResult(outcome) = "summary"

-----------------------------------------------------------------------------
(* Column-level view of the upserts: one table, its rows as functions from *)
(* column names to values, and deliveries of upstream records to it        *)

\* Columns of the row dict each backfill loader builds
BackfillCols(t) ==
    CASE t = "trd_buy" ->
            {"id", "number_anno", "name_ru", "name_kz", "ref_trade_methods_id",
             "publish_date", "start_date", "end_date", "total_sum", "ref_buy_status_id",
             "org_bin", "system_id", "singl_org_sign", "is_light_industry",
             "is_construction_work", "last_update_at", "is_deleted"}
      [] t = "lots" ->
            {"id", "trd_buy_id", "lot_number", "name_ru", "name_kz", "amount",
             "customer_bin", "customer_name", "dumping_flag", "union_lots_flag",
             "ref_lot_status_id", "singl_org_sign", "is_light_industry",
             "is_construction_work", "disable_person_id", "system_id",
             "last_update_at", "is_deleted"}
      [] t = "trd_app" ->
            {"id", "buy_id", "supplier_id", "supplier_biin", "cr_fio", "mod_fio",
             "prot_id", "prot_number", "date_apply", "system_id", "last_update_at"}
      [] t = "trd_app_lot" ->
            {"id", "trd_app_id", "lot_id", "status_id", "price", "amount",
             "discount_value", "discount_price"}
      [] t = "contract" ->
            {"id", "trd_buy_id", "contract_number", "contract_number_sys",
             "trd_buy_number_anno", "customer_bin", "supplier_biin", "contract_sum_wnds",
             "sign_date", "plan_exec_date", "fakt_exec_date", "fakt_sum",
             "ref_contract_status_id", "ref_contract_type_id", "parent_id", "root_id",
             "supplier_legal_address", "customer_legal_address", "is_gu",
             "exchange_rate", "system_id", "last_update_at", "is_deleted"}
      [] t = "rnu" ->
            {"id", "pid", "supplier_biin", "supplier_name_ru", "start_date", "end_date",
             "reason", "system_id", "is_active"}
      [] t = "treasury_pay" ->
            {"id", "nom_za", "contract_id", "dt_reg", "supplier", "rnn_supplier",
             "nom_dog", "dt_dog", "item_description", "pay_amount", "pay_date", "ppn",
             "espk", "gu", "fin_source", "index_date", "system_id"}
      [] OTHER -> {}

\* Columns of the row dict each incremental _upsert_* builds
IncrementalCols(t) ==
    CASE t = "trd_buy" ->
            {"id", "number_anno", "name_ru", "name_kz", "ref_trade_methods_id",
             "publish_date", "start_date", "end_date", "total_sum", "ref_buy_status_id",
             "org_bin", "system_id", "last_update_at", "is_deleted"}
      [] t = "lots" ->
            {"id", "trd_buy_id", "name_ru", "amount", "customer_bin", "dumping_flag",
             "ref_lot_status_id", "system_id", "last_update_at", "is_deleted"}
      [] t = "contract" ->
            {"id", "trd_buy_id", "customer_bin", "supplier_biin", "contract_sum_wnds",
             "sign_date", "plan_exec_date", "fakt_exec_date", "fakt_sum",
             "ref_contract_status_id", "parent_id", "root_id", "system_id",
             "last_update_at", "is_deleted"}
      [] t = "subject" ->
            {"id", "bin", "iin", "name_ru", "regdate", "crdate", "mark_small_employer",
             "mark_resident", "system_id", "last_update_at", "is_deleted"}
      [] OTHER -> {}

StmtCols(via, t) == IF via = "backfill" THEN BackfillCols(t) ELSE IncrementalCols(t)

\* The tables a delivery path writes
ViaTables(via) == {t \in Tables : StmtCols(via, t) # {}}

TableCols(t) == BackfillCols(t) \cup IncrementalCols(t)

\* Mutant: the conflict clause built over every column of the statement
SetCols_WholeRow(via, t) == StmtCols(via, t) \ {"id"}

\* set_ of on_conflict_do_update(index_elements=["id"], set_={...})
SetCols(via, t) ==
    CASE t = "trd_buy" -> {"ref_buy_status_id", "total_sum", "last_update_at"}
      [] t = "lots" -> {"amount", "ref_lot_status_id", "dumping_flag", "last_update_at"}
      [] t = "trd_app" -> {"last_update_at"}
      [] t = "trd_app_lot" -> {"status_id", "price", "amount"}
      [] t = "contract" ->
            {"contract_sum_wnds", "fakt_sum", "fakt_exec_date", "ref_contract_status_id",
             "last_update_at"}
      [] t = "rnu" -> {"end_date", "is_active"}
      [] t = "treasury_pay" -> {"pay_amount"}
      [] t = "subject" -> {"name_ru", "regdate", "mark_small_employer", "last_update_at"}

\* The upstream record of an id in one of its versions: every field of the
\* payload, index_date included, carries the version
Record(id, ver) == [id |-> id, ver |-> ver]

\* datetime.utcnow() at the given clock: later than every upstream date
UtcNow(clock) == MaxVersions + 1 + clock

\* The value a loader / _upsert_* puts into column c of the row it builds
ColValue(via, c, rec, clock) ==
    CASE c \in {"id", "trd_app_id"} -> rec.id
      [] c = "is_deleted" -> FALSE
      [] c = "is_active" -> TRUE
      [] c = "last_update_at" -> IF via = "backfill" THEN rec.ver ELSE UtcNow(clock)
      [] OTHER -> rec.ver

StmtRow(via, t, rec, clock) == [c \in StmtCols(via, t) |-> ColValue(via, c, rec, clock)]

\* INSERT ... VALUES (row) ON CONFLICT (id) DO UPDATE SET <set_> = excluded
OnConflictDoUpdate(rows, via, t, row) ==
    IF \E old \in rows : old["id"] = row["id"]
    THEN {IF old["id"] = row["id"]
          THEN [c \in DOMAIN old |-> IF c \in SetCols(via, t) THEN row[c] ELSE old[c]]
          ELSE old : old \in rows}
    ELSE rows \cup {[c \in TableCols(t) |-> IF c \in DOMAIN row THEN row[c] ELSE None]}

\* One delivery of an upstream record: a backfill page upsert of the loader
\* of table t, or an incremental _upsert_* after fetch_by_id returned it
Deliver(via, t, id, ver) ==
    /\ t \in ViaTables(via)
    /\ target \in {"none", t}
    /\ now < MaxDeliveries
    /\ LET row == StmtRow(via, t, Record(id, ver), now)
           after == OnConflictDoUpdate(table, via, t, row)
       IN /\ table' = after
          /\ dl' = [vers |-> [dl.vers EXCEPT ![id] = @ \cup {ver}],
                    first |-> IF dl.vers[id] = {}
                              THEN dl.first \cup {r \in after : r["id"] = id}
                              ELSE dl.first,
                    last |-> <<via, row>>]
    /\ target' = t
    /\ now' = now + 1
    /\ UNCHANGED <<upstream, store, cursors, runs, pc, window, src, url, attempt,
                   lastErr, summary, journal_entries, idx, outcome, fb, hist, committed,
                   scoreVars, indVars, ops>>

NextUpsert ==
    \/ \E t \in Tables, id \in 1..MaxRowId, ver \in 1..MaxVersions :
          Deliver("backfill", t, id, ver)
    \/ \E t \in Tables, id \in 1..MaxRowId, ver \in 1..MaxVersions :
          Deliver("incremental", t, id, ver)

\* The deliveries start from empty tables; the paginated upstream of the
\* backfill walk plays no part and is fixed to its plain shape
InitUpsert == Init /\ upstream = [empty |-> <<"none", 0>>, short |-> "none"]

SpecUpsert == InitUpsert /\ [][NextUpsert]_vars

\* The mutable columns the claim lists per entity
C12_Mutable(t) ==
    CASE t = "trd_buy" -> {"ref_buy_status_id", "total_sum", "last_update_at"}
      [] t = "lots" -> {"amount", "ref_lot_status_id", "dumping_flag", "last_update_at"}
      [] t = "contract" ->
            {"contract_sum_wnds", "fakt_sum", "fakt_exec_date", "ref_contract_status_id",
             "last_update_at"}
      [] t = "rnu" -> {"end_date", "is_active"}
      [] t = "treasury_pay" -> {"pay_amount"}
      [] t = "trd_app" -> {"last_update_at"}
      [] t = "trd_app_lot" -> {"status_id", "price", "amount"}
      [] OTHER -> {}

\* C12: when a backfill or incremental upsert hits a row whose id already
\* exists, the entity's listed mutable columns take the values of the new
\* statement and every other column of the existing row (id, identities,
\* parent_id, root_id, ...) keeps its value; rows of other ids are untouched.
C12_OnlyMutableOverwritten ==
    [][(table' # table /\ target' # "subject") =>
          \A old \in table : \E new \in table' :
              /\ new["id"] = old["id"]
              /\ \A c \in DOMAIN old :
                    IF c \in C12_Mutable(target') /\ old["id"] = dl'.last[2]["id"]
                    THEN new[c] = dl'.last[2][c]
                    ELSE new[c] = old[c]
      ]_vars

\* C12 witness: a contract inserted from version 1 of its record was hit by
\* a delivery of version 2: the sum is the new one, root_id the first one
C12_Witness ==
    /\ target = "contract"
    /\ \E r \in table : /\ r["root_id"] = 1 /\ r["parent_id"] = 1
                        /\ r["contract_sum_wnds"] = 2
                        /\ Record(r["id"], 2).ver \in dl.vers[r["id"]]

\* C13 (as claimed): an upstream record delivered any number of times with
\* the same payload, through backfill page upserts and incremental updates
\* in any order, has exactly one row, equal to the row after one delivery.
C13_RepeatedDeliveryIdempotent ==
    \A id \in 1..MaxRowId :
        Cardinality(dl.vers[id]) = 1 =>
            /\ Cardinality({r \in table : r["id"] = id}) = 1
            /\ {r \in table : r["id"] = id} \subseteq dl.first

\* C14: after every incremental run that ends with status success the cursor
\* row "journal" holds the end date of the run's window and every backfill
\* cursor is as it was when the run started; after an incremental run that
\* failed at the retrieval of the journal, no cursor row has changed.
C14_JournalCursor ==
    (Finished /\ LastHist.kind = "incremental") =>
        /\ LastRun.status = "success" =>
              /\ cursors[JournalCursorName] = LastHist.window[2]
              /\ \A n \in BackfillCursorNames : cursors[n] = LastHist.start_cursors[n]
        /\ (LastRun.status = "failed" /\ ~LastHist.journal_ok) =>
              cursors = LastHist.start_cursors

\* C14 witness: an incremental run over a two-day window has ended with
\* status success after a backfill that left a page cursor behind
C14_Witness ==
    /\ Finished
    /\ LastHist.kind = "incremental"
    /\ LastRun.status = "success"
    /\ LastHist.window = <<1, 2>>
    /\ cursors[JournalCursorName] = 2
    /\ LastHist.start_cursors[JournalCursorName] = None
    /\ \E n \in BackfillCursorNames : cursors[n] # None

\* C14, the failing case reached:
\* a run failed at the journal while a journal cursor of an earlier run exists
C14_FailedKeepsCursor ==
    /\ Finished
    /\ LastHist.kind = "incremental"
    /\ LastRun.status = "failed"
    /\ ~LastHist.journal_ok
    /\ cursors[JournalCursorName] # None

-----------------------------------------------------------------------------
(* Scoring engine (features/engine.py, features/indicators.py)             *)
(* Scores are kept in tenths: 1000 stands for 100.0                        *)

CodeIndex(code) == CHOOSE i \in 1..Len(IndicatorCodes) : IndicatorCodes[i] = code

\* WEIGHTS.get(code, 0)
WEIGHTS(c, code) ==
    IF CodeIndex(code) <= Len(c.weights) THEN c.weights[CodeIndex(code)] ELSE 0

RECURSIVE SumSeq(_)
SumSeq(s) == IF s = <<>> THEN 0 ELSE Head(s) + SumSeq(Tail(s))

\* MAX_SCORE = sum(WEIGHTS.values())
MAX_SCORE(c) == SumSeq(c.weights)

Min(a, b) == IF a <= b THEN a ELSE b

\* The first n elements of a sequence
Limit(s, n) == SubSeq(s, 1, Min(n, Len(s)))

\* Mutant: the normalized score cut to one decimal instead of rounded
_normalize_score_Truncate(c, raw) == Min(1000, (1000 * raw) \div MAX_SCORE(c))

\* round(min(100.0, (raw / MAX_SCORE) * 100), 1): Python rounds a tie to the
\* even neighbour
_normalize_score(c, raw) ==
    LET q == (1000 * raw) \div MAX_SCORE(c)
        r == (1000 * raw) % MAX_SCORE(c)
        rounded == IF 2 * r < MAX_SCORE(c) THEN q
                   ELSE IF 2 * r > MAX_SCORE(c) THEN q + 1
                   ELSE IF q % 2 = 0 THEN q ELSE q + 1
    IN Min(1000, rounded)

\* Mutant: the thresholds compared strictly
_get_level_Strict(c, score) ==
    IF score < 10 * c.low_max THEN "LOW"
    ELSE IF score < 10 * c.medium_max THEN "MEDIUM"
    ELSE "HIGH"

_get_level(c, score) ==
    IF score <= 10 * c.low_max THEN "LOW"
    ELSE IF score <= 10 * c.medium_max THEN "MEDIUM"
    ELSE "HIGH"

\* An indicator's "value": None, or a float (kept as a one-element tuple, in
\* tenths where the code rounds to one decimal, in whole units otherwise)
Null == <<>>

Float(v) == <<v>>

\* What an indicator returns: {"flag": .., "value": .., "evidence": {..}}, the
\* evidence dict by its keys
Result(flag, value, evidence) ==
    [raised |-> FALSE, flag |-> flag, value |-> value, evidence |-> evidence]

\* {"flag": False, "value": None, "evidence": {}}
NoResult == Result(FALSE, Null, {})

\* round(num / den, 0) for den > 0: Python rounds a tie to the even neighbour
RoundDiv(num, den) ==
    LET q == num \div den
        r == num % den
    IN IF 2 * r < den THEN q
       ELSE IF 2 * r > den THEN q + 1
       ELSE IF q % 2 = 0 THEN q ELSE q + 1

\* check_addendum_value_increase: the contract and its root are read by id
check_addendum_value_increase(db, contract_id) ==
    LET rows == {k \in db.contracts : k.id = contract_id}
    IN IF rows = {} THEN NoResult
       ELSE LET row == CHOOSE k \in rows : TRUE
                roots == {k \in db.contracts : k.id = row.root_id}
            IN IF row.root_id = None \/ roots = {} THEN NoResult
               ELSE LET root == CHOOSE k \in roots : TRUE
                    IN IF root.contract_sum_wnds = None \/ row.contract_sum_wnds = None
                       THEN NoResult
                       ELSE Result(5 * (row.contract_sum_wnds - root.contract_sum_wnds)
                                       > root.contract_sum_wnds,
                                   Float(RoundDiv(1000 * (row.contract_sum_wnds
                                                            - root.contract_sum_wnds),
                                                  root.contract_sum_wnds)),
                                   {"root_contract_id", "original_sum", "current_sum",
                                    "increase_pct", "threshold_pct"})

\* An exception leaves the call
Raised == [raised |-> TRUE, flag |-> FALSE, value |-> Null, evidence |-> {}]

\* The tables of the schema (models/procurement.py, initial migration) that
\* the indicators name
Relations == {"trd_buy", "lots", "trd_app", "contract", "subject", "rnu", "treasury_pay"}

\* The result of one indicator: the addendum rule from the contracts, the
\* other fifteen from whether their rule holds in the tables they read.
\* The rule of PAYMENT_WITHOUT_ACT holds when the contract has payments and
\* no act; its count of acts is a query on a table "acts", which raises when
\* the schema has no such table.
Indicator(db, f, code, contract) ==
    IF code = "ADDENDUM_VALUE_INCREASE"
    THEN check_addendum_value_increase(db, contract.id)
    ELSE IF code = "PAYMENT_WITHOUT_ACT" /\ code \in f /\ "acts" \notin Relations
    THEN Raised
    ELSE Result(code \in f, Null, {})

NoContract == ContractRow(None, None, None, None, None, FALSE)

\* select(Contract).where(trd_buy_id == lot.trd_buy_id, is_deleted == False).limit(1)
ContractsOf(db, lot) ==
    LET found == {k \in db.contracts : k.trd_buy_id = lot.trd_buy_id /\ ~k.is_deleted}
    IN IF found = {} THEN {NoContract} ELSE found

\* Whether compute_lot_score evaluates the i-th indicator for this lot
Applicable(i, lot, contract) ==
    CASE i = 1 -> TRUE
      [] i \in 2..6 -> lot.trd_buy_id # None
      [] i \in 7..8 -> lot.customer_bin # None /\ contract.id # None
                       /\ contract.supplier_biin # None
      [] i \in 9..12 -> contract.id # None /\ contract.supplier_biin # None
      [] OTHER -> contract.id # None

\* Whether one of the indicators compute_lot_score evaluates raises
IndicatorRaises(db, f, lot, contract) ==
    \E i \in 1..Len(IndicatorCodes) :
        Applicable(i, lot, contract) /\ Indicator(db, f, IndicatorCodes[i], contract).raised

\* flags, as the list of its items in insertion order
Flags(db, f, lot, contract) ==
    LET all == [i \in 1..Len(IndicatorCodes) |->
                   [code |-> IndicatorCodes[i], i |-> i,
                    result |-> Indicator(db, f, IndicatorCodes[i], contract)]]
        kept == SelectSeq(all, LAMBDA x : Applicable(x.i, lot, contract))
    IN [j \in 1..Len(kept) |-> [code |-> kept[j].code, flag |-> kept[j].result.flag,
                                value |-> kept[j].result.value]]

RECURSIVE RawScore(_, _)
\* raw_score = sum(WEIGHTS.get(code, 0) * (1 if result.get("flag") else 0) ...)
RawScore(c, flags) ==
    IF flags = <<>> THEN 0
    ELSE (IF Head(flags).flag THEN WEIGHTS(c, Head(flags).code) ELSE 0)
         + RawScore(c, Tail(flags))

RECURSIVE InsertDesc(_, _)
InsertDesc(x, s) ==
    IF s = <<>> THEN <<x>>
    ELSE IF Head(s).weight > x.weight THEN <<Head(s)>> \o InsertDesc(x, Tail(s))
    ELSE <<x>> \o s

RECURSIVE SortedDesc(_)
\* sorted(..., key=lambda x: x["weight"], reverse=True): stable
SortedDesc(s) == IF s = <<>> THEN <<>> ELSE InsertDesc(Head(s), SortedDesc(Tail(s)))

Triggered(c, flags) ==
    LET on == SelectSeq(flags, LAMBDA x : x.flag)
    IN [j \in 1..Len(on) |-> [code |-> on[j].code, weight |-> WEIGHTS(c, on[j].code)]]

\* Mutant: the triggered indicators cut to three without sorting them
TopReasons_Unsorted(c, flags) == SubSeq(Triggered(c, flags), 1, Min(3, Len(Triggered(c, flags))))

\* top_reasons = sorted([... if result.get("flag")], key=weight, reverse=True)[:3]
TopReasons(c, flags) ==
    LET s == SortedDesc(Triggered(c, flags)) IN SubSeq(s, 1, Min(3, Len(s)))

\* The unique indexes of the risk tables (models/procurement.py and the
\* initial migration): the primary key only; ix_risk_scores_entity and the
\* other indexes are not unique
UniqueIndexes == [risk_flags |-> {{"id"}}, risk_scores |-> {{"id"}}]

\* str(lot_id)
Str(n) == <<"str", n>>

\* flag_rows: one row per item of flags
FlagRows(lot_id, flags, clock) ==
    [j \in 1..Len(flags) |->
        [entity_type |-> "lot", entity_id |-> Str(lot_id),
         indicator_code |-> flags[j].code, flag_bool |-> flags[j].flag,
         value_numeric |-> flags[j].value, computed_at |-> clock]]

\* pg_insert(RiskFlag).values(flag_rows).on_conflict_do_nothing(): the only
\* unique index is the autoincrement id, so every row is inserted
InsertFlags(rf, rows) ==
    rf \o [j \in 1..Len(rows) |-> [id |-> Len(rf) + j, row |-> rows[j]]]

\* pg_insert(RiskScore).values([row]).on_conflict_do_update(
\*     index_elements=["entity_type", "entity_id"], set_={score, level, ...}):
\* PostgreSQL raises unless a unique index covers exactly the named columns
ScoreUpsert(rs, row) ==
    IF {"entity_type", "entity_id"} \notin UniqueIndexes.risk_scores
    THEN [raised |-> TRUE, rows |-> rs]
    ELSE [raised |-> FALSE,
          rows |-> IF \E old \in rs : old.entity_type = row.entity_type
                                      /\ old.entity_id = row.entity_id
                   THEN {IF old.entity_type = row.entity_type /\ old.entity_id = row.entity_id
                         THEN [old EXCEPT !.score = row.score, !.level = row.level,
                                          !.top_reasons = row.top_reasons,
                                          !.computed_at = row.computed_at]
                         ELSE old : old \in rs}
                   ELSE rs \cup {[row EXCEPT !.id = Cardinality(rs) + 1]}]

\* Mutant: the flag rows committed on their own, before the score upsert
CommittedFlags_Autocommit(rf, rows, raised) == InsertFlags(rf, rows)

\* The Risk Flag table after the pass: the insert of the flag rows and the
\* score upsert run in one session with a single db.commit() at the end, so
\* nothing is kept when a statement raised
CommittedFlags(rf, rows, raised) == IF raised THEN rf ELSE InsertFlags(rf, rows)

\* compute_lot_score(lot_id) with the contract its query returned: what it
\* computed, whether it raised, and the risk tables after it (one
\* transaction: nothing is committed when a statement raises)
compute_lot_score(db, f, c, rf, rs, lot_id, contract, clock) ==
    IF ~\E l \in db.lots : l.id = lot_id
    THEN [lot_id |-> lot_id, found |-> FALSE, scored |-> FALSE, raised |-> FALSE,
          flags |-> <<>>, score |-> None, level |-> "none", top_reasons |-> <<>>,
          risk_flags |-> rf, risk_scores |-> rs]
    ELSE LET lot == CHOOSE l \in db.lots : l.id = lot_id
         IN IF IndicatorRaises(db, f, lot, contract)
            THEN [lot_id |-> lot_id, found |-> TRUE, scored |-> FALSE, raised |-> TRUE,
                  flags |-> <<>>, score |-> None, level |-> "none", top_reasons |-> <<>>,
                  risk_flags |-> rf, risk_scores |-> rs]
            ELSE
             LET flags == Flags(db, f, lot, contract)
                 score == _normalize_score(c, RawScore(c, flags))
                 level == _get_level(c, score)
                 top == TopReasons(c, flags)
                 row == [id |-> None, entity_type |-> "lot", entity_id |-> Str(lot_id),
                         score |-> score, level |-> level, top_reasons |-> top,
                         computed_at |-> clock]
                 up == ScoreUpsert(rs, row)
             IN [lot_id |-> lot_id, found |-> TRUE, scored |-> TRUE, raised |-> up.raised,
                 flags |-> flags, score |-> score, level |-> level, top_reasons |-> top,
                 risk_flags |-> CommittedFlags(rf, FlagRows(lot_id, flags, clock), up.raised),
                 risk_scores |-> up.rows]

\* The contracts compute_lot_score's query may return for the lot id
Candidates(db, lot_id) ==
    IF \E l \in db.lots : l.id = lot_id
    THEN ContractsOf(db, CHOOSE l \in db.lots : l.id = lot_id)
    ELSE {NoContract}

Pass(res) == [lot_id |-> res.lot_id, found |-> res.found, scored |-> res.scored,
              raised |-> res.raised,
              flags |-> res.flags, score |-> res.score, level |-> res.level,
              top_reasons |-> res.top_reasons]

MaxLotId == 2

\* A direct call of compute_lot_score on the store as it is
Compute(lot_id) ==
    /\ fe.pc = "idle"
    /\ sh = <<>>
    /\ \E contract \in Candidates(sdb, lot_id) :
          LET res == compute_lot_score(sdb, facts, cfg, risk_flags, risk_scores, lot_id,
                                       contract, 1)
          IN /\ risk_flags' = res.risk_flags
             /\ risk_scores' = res.risk_scores
             /\ sh' = <<Pass(res)>>
    /\ UNCHANGED <<upstream, store, cursors, runs, now, pc, window, src, url, attempt,
                   lastErr, summary, journal_entries, idx, outcome, fb, hist, committed,
                   upsertVars, cfg, sdb, facts, fe, indVars, ops>>

RECURSIVE SeqOf(_)
SeqOf(S) == IF S = {} THEN <<>> ELSE LET x == CHOOSE y \in S : TRUE
                                     IN <<x>> \o SeqOf(S \ {x})

\* The entity_ids a caller may pass: none, or up to MaxPasses lot ids
EntityIdLists == UNION {[1..n -> 1..MaxLotId] : n \in 0..MaxPasses}

\* .limit(10000) of the query that lists the lots
RunLimit == 10000

\* FeatureEngine.run: lot_ids = entity_ids if entity_ids else the ids of all
\* lots with is_deleted == False (limit 10000).  The record keeps the
\* argument, the whole list and the number of passes made before the call.
FeRun(entity_ids) ==
    /\ fe.pc = "idle"
    /\ LET lot_ids == IF entity_ids # <<>> THEN entity_ids
                      ELSE Limit(SeqOf({l.id : l \in {x \in sdb.lots : ~x.is_deleted}}),
                                 RunLimit)
       IN /\ Len(sh) + Len(lot_ids) <= MaxPasses
          /\ fe' = [pc |-> "loop", lot_ids |-> lot_ids,
                    summary |-> [lots_processed |-> 0, errors |-> 0],
                    entity_ids |-> entity_ids, all |-> lot_ids, from |-> Len(sh)]
    /\ UNCHANGED <<upstream, store, cursors, runs, now, pc, window, src, url, attempt,
                   lastErr, summary, journal_entries, idx, outcome, fb, hist, committed,
                   upsertVars, cfg, sdb, facts, risk_flags, risk_scores, sh, indVars, ops>>

\* Mutant: the loop left at the first lot whose scoring raises
Remaining_AbortOnError(lot_ids, raised) == IF raised THEN <<>> ELSE Tail(lot_ids)

\* The lots still to be scored after the head of the list was attempted:
\* `except Exception` counts the error and the for loop goes on
Remaining(lot_ids, raised) == Tail(lot_ids)

\* for lot_id in lot_ids: try: compute_lot_score(lot_id); lots_processed += 1
\*                        except Exception: errors += 1
FeStep ==
    /\ fe.pc = "loop"
    /\ fe.lot_ids # <<>>
    /\ \E contract \in Candidates(sdb, Head(fe.lot_ids)) :
          LET res == compute_lot_score(sdb, facts, cfg, risk_flags, risk_scores,
                                       Head(fe.lot_ids), contract, Len(sh) + 1)
          IN /\ risk_flags' = res.risk_flags
             /\ risk_scores' = res.risk_scores
             /\ sh' = Append(sh, Pass(res))
             /\ fe' = [fe EXCEPT !.lot_ids = Remaining(@, res.raised),
                                 !.summary = IF res.raised THEN Bump(@, "errors")
                                             ELSE Bump(@, "lots_processed")]
    /\ UNCHANGED <<upstream, store, cursors, runs, now, pc, window, src, url, attempt,
                   lastErr, summary, journal_entries, idx, outcome, fb, hist, committed,
                   upsertVars, cfg, sdb, facts, indVars, ops>>

\* return summary
FeReturn ==
    /\ fe.pc = "loop"
    /\ fe.lot_ids = <<>>
    /\ fe' = [fe EXCEPT !.pc = "idle"]
    /\ UNCHANGED <<upstream, store, cursors, runs, now, pc, window, src, url, attempt,
                   lastErr, summary, journal_entries, idx, outcome, fb, hist, committed,
                   upsertVars, cfg, sdb, facts, risk_flags, risk_scores, sh, indVars, ops>>

\* The store and configuration a recompute may find
InitScoreInputs ==
    /\ InitIngest
    /\ upstream = [empty |-> <<"none", 0>>, short |-> "none"]
    /\ InitRisk
    /\ InitNoCall
    /\ cfg \in Configs
    /\ sdb \in ScoreDbs

\* The recompute entry point over stores in which at most one of the
\* fifteen rules holds, or all of them
InitScore ==
    /\ InitScoreInputs
    /\ facts \in {f \in FactSets : Cardinality(f) <= 1 \/ Cardinality(f) = Len(IndicatorCodes) - 1}

NextScore ==
    \/ \E ids \in EntityIdLists : FeRun(ids)
    \/ FeStep
    \/ FeReturn

SpecScore == InitScore /\ [][NextScore]_vars

\* compute_lot_score as a function of the store, applied once to each input
InitCompute ==
    /\ InitScoreInputs
    /\ facts \in FactSets

NextCompute == \E lot_id \in 1..MaxLotId : Compute(lot_id)

SpecCompute == InitCompute /\ [][NextCompute]_vars

-----------------------------------------------------------------------------
(* Claims about the scoring engine                                         *)

ScoreRowsOf(lot_id) ==
    {r \in risk_scores : r.entity_type = "lot" /\ r.entity_id = Str(lot_id)}

\* The latest pass over each lot that was found
LatestPasses ==
    {i \in 1..Len(sh) : /\ sh[i].scored
                        /\ \A j \in (i + 1)..Len(sh) : sh[j].lot_id # sh[i].lot_id}

\* C15 (as claimed): after any sequence of compute_lot_score calls the store
\* holds at most one Risk Score row per (entity type, entity id), and the
\* row of a lot carries the score, level and top reasons of the most recent
\* computation for that lot.
C15_OneScorePerLot ==
    /\ \A r1, r2 \in risk_scores :
          (r1.entity_type = r2.entity_type /\ r1.entity_id = r2.entity_id) => r1 = r2
    /\ \A i \in LatestPasses :
          \E r \in ScoreRowsOf(sh[i].lot_id) :
              /\ r.score = sh[i].score
              /\ r.level = sh[i].level
              /\ r.top_reasons = sh[i].top_reasons

FlagRowsOf(lot_id) ==
    {j \in 1..Len(risk_flags) : risk_flags[j].row.entity_id = Str(lot_id)}

RECURSIVE EvaluatedCount(_, _)
\* The indicators evaluated for the lot, summed over the first n passes
EvaluatedCount(lot_id, n) ==
    IF n = 0 THEN 0
    ELSE (IF sh[n].lot_id = lot_id THEN Len(sh[n].flags) ELSE 0)
         + EvaluatedCount(lot_id, n - 1)

C17_Classified(score, level) ==
    /\ score <= 10 * cfg.low_max => level = "LOW"
    /\ (10 * cfg.low_max < score /\ score <= 10 * cfg.medium_max) => level = "MEDIUM"
    /\ score > 10 * cfg.medium_max => level = "HIGH"
    /\ score = 0 => level = "LOW"
    /\ score = 1000 => level = "HIGH"

\* C17: the level of every Risk Score row, stored or handed to the upsert by
\* a pass, is the classification of that row's score: LOW up to low_max,
\* MEDIUM up to medium_max, HIGH above; 0 is LOW and 100 is HIGH.
C17_LevelFollowsScore ==
    /\ \A r \in risk_scores : C17_Classified(r.score, r.level)
    /\ \A i \in 1..Len(sh) : sh[i].scored => C17_Classified(sh[i].score, sh[i].level)

\* C17 witness: a pass that evaluated all sixteen indicators, every weighted
\* one of them triggered, built a row with score 100 and level HIGH
C17_Witness ==
    \E i \in 1..Len(sh) :
        /\ sh[i].found
        /\ Len(sh[i].flags) = Len(IndicatorCodes)
        /\ sh[i].score = 1000
        /\ sh[i].level = "HIGH"

TriggeredCodes(p) == {p.flags[j].code : j \in {k \in 1..Len(p.flags) : p.flags[k].flag}}

\* The configured weight of a code, read off the weight table by position
C18_Weight(code) ==
    LET i == CHOOSE k \in 1..Len(IndicatorCodes) : IndicatorCodes[k] = code
    IN IF i \in DOMAIN cfg.weights THEN cfg.weights[i] ELSE 0

RECURSIVE C18_Sum(_)
C18_Sum(S) == IF S = {} THEN 0
              ELSE LET x == CHOOSE y \in S : TRUE IN C18_Weight(x) + C18_Sum(S \ {x})

\* C18: the score of every pass is 100 * (sum of the configured weights of
\* the triggered evaluated indicators) / (sum of all configured weights),
\* capped at 100 and rounded to one decimal (the nearest tenth); it lies in
\* [0, 100] and is 0 when no evaluated indicator is triggered.
C18_ScoreFormula ==
    \A i \in 1..Len(sh) :
        sh[i].scored =>
            LET w == C18_Sum(TriggeredCodes(sh[i]))
                total == C18_Sum(CodeSet)
                exact == IF w >= total THEN 1000 * total ELSE 1000 * w
                diff == sh[i].score * total - exact
            IN /\ 0 <= sh[i].score /\ sh[i].score <= 1000
               /\ 2 * diff <= total /\ 2 * (0 - diff) <= total
               /\ TriggeredCodes(sh[i]) = {} => sh[i].score = 0

\* C18 witness: a pass whose exact quotient is not a whole tenth and lies
\* above the half, so that the score was rounded up
C18_Witness ==
    \E i \in 1..Len(sh) :
        /\ sh[i].found
        /\ 0 < sh[i].score /\ sh[i].score < 1000
        /\ 2 * ((1000 * C18_Sum(TriggeredCodes(sh[i]))) % C18_Sum(CodeSet)) > C18_Sum(CodeSet)

\* C19: the top reasons of every pass are min(3, t) of the t triggered
\* indicators, each once, in non-increasing weight order, and no triggered
\* indicator left out outweighs one that is included.
C19_TopReasons ==
    \A i \in 1..Len(sh) :
        sh[i].scored =>
            LET top == sh[i].top_reasons
                trig == TriggeredCodes(sh[i])
                inc == {top[j].code : j \in 1..Len(top)}
            IN /\ Len(top) = (IF Cardinality(trig) < 3 THEN Cardinality(trig) ELSE 3)
               /\ inc \subseteq trig
               /\ Cardinality(inc) = Len(top)
               /\ \A j \in 1..Len(top) : top[j].weight = C18_Weight(top[j].code)
               /\ \A j \in 1..(Len(top) - 1) : top[j].weight >= top[j + 1].weight
               /\ \A c \in trig \ inc : \A j \in 1..Len(top) : C18_Weight(c) <= top[j].weight

\* C19 witness: more than three indicators were triggered and one of the
\* three kept outweighs a triggered indicator evaluated before it
C19_Witness ==
    \E i \in 1..Len(sh) :
        /\ sh[i].found
        /\ Cardinality(TriggeredCodes(sh[i])) > 3
        /\ \E c \in TriggeredCodes(sh[i]) :
              /\ c \notin {sh[i].top_reasons[j].code : j \in 1..Len(sh[i].top_reasons)}
              /\ CodeIndex(c) < CodeIndex(sh[i].top_reasons[1].code)
              /\ C18_Weight(c) < sh[i].top_reasons[3].weight

\* The rows with is_deleted = false
LiveRows(db) ==
    [lots |-> {l \in db.lots : ~l.is_deleted},
     contracts |-> {k \in db.contracts : ~k.is_deleted}]

\* C20 (as claimed): soft-deleted rows take no part in scoring: a pass
\* computes the same flags on every store that agrees with the actual one
\* on the rows with is_deleted = false, and no pass scores a lot whose
\* is_deleted is true.
C20_DeletedRowsIgnored ==
    \A i \in 1..Len(sh) :
        sh[i].scored =>
            /\ \A l \in sdb.lots : l.id = sh[i].lot_id => ~l.is_deleted
            /\ \A db2 \in ScoreDbs :
                  LiveRows(db2) = LiveRows(sdb) =>
                      \A l2 \in db2.lots : l2.id = sh[i].lot_id =>
                          \E k2 \in ContractsOf(db2, l2) :
                              Flags(db2, facts, l2, k2) = sh[i].flags

-----------------------------------------------------------------------------
(* The sixteen indicators (features/indicators.py), each called on its own *)
(* Datetimes are whole hours; 0 stands for NULL.  Money is in tenge.       *)

\* timedelta.days
Days(hours) == hours \div 24

RECURSIVE SumOf(_, _)
\* func.sum over a set of rows
SumOf(rows, col) ==
    IF rows = {} THEN 0
    ELSE LET r == CHOOSE x \in rows : TRUE IN r[col] + SumOf(rows \ {r}, col)

\* 1. SHORT_DEADLINE
check_short_deadline(db, trd_buy_id) ==
    LET rows == {t \in db.trd_buy : t.id = trd_buy_id}
    IN IF rows = {} THEN NoResult
       ELSE LET row == CHOOSE t \in rows : TRUE
            IN IF row.start_date = None \/ row.end_date = None THEN NoResult
               ELSE LET delta_days == Days(row.end_date - row.start_date)
                    IN Result(delta_days < 3, Float(delta_days),
                              {"start_date", "end_date", "deadline_days", "threshold"})

\* 2. FEW_BIDS
check_few_bids(db, trd_buy_id) ==
    LET bid_count == Cardinality({a \in db.trd_app : a.buy_id = trd_buy_id})
    IN Result(0 < bid_count /\ bid_count <= 2, Float(bid_count), {"bid_count", "threshold"})

\* 3. LOT_SPLITTING
check_lot_splitting(db, trd_buy_id) ==
    LET rows == {l \in db.lots : l.trd_buy_id = trd_buy_id /\ ~l.is_deleted}
        lot_count == Cardinality(rows)
        total_sum == SumOf(rows, "amount")
    IN Result(lot_count > 5 /\ total_sum < 5000000 * lot_count /\ total_sum > 10000000,
              Float(lot_count), {"lot_count", "total_sum", "avg_lot_amount"})

\* Mutant: soft-deleted contracts counted in the customer's total
check_recurring_winner_CountsDeleted(db, customer_bin, supplier_biin) ==
    LET total == Cardinality({k \in db.contracts : k.customer_bin = customer_bin})
        supplier_count == Cardinality({k \in db.contracts :
                                          /\ k.customer_bin = customer_bin
                                          /\ k.supplier_biin = supplier_biin
                                          /\ ~k.is_deleted})
    IN IF total = 0 THEN Result(FALSE, Float(0), {})
       ELSE Result(10 * supplier_count > 7 * total /\ total >= 5,
                   Float(RoundDiv(1000 * supplier_count, total)),
                   {"customer_bin", "supplier_biin", "supplier_contracts",
                    "total_contracts", "win_rate_pct", "threshold_pct"})

\* 4. RECURRING_WINNER: win_rate > 0.70 as a comparison of whole numbers, the
\* value round(win_rate * 100, 1) in tenths of a percent
check_recurring_winner(db, customer_bin, supplier_biin) ==
    LET total == Cardinality({k \in db.contracts :
                                 k.customer_bin = customer_bin /\ ~k.is_deleted})
        supplier_count == Cardinality({k \in db.contracts :
                                          /\ k.customer_bin = customer_bin
                                          /\ k.supplier_biin = supplier_biin
                                          /\ ~k.is_deleted})
    IN IF total = 0 THEN Result(FALSE, Float(0), {})
       ELSE Result(10 * supplier_count > 7 * total /\ total >= 5,
                   Float(RoundDiv(1000 * supplier_count, total)),
                   {"customer_bin", "supplier_biin", "supplier_contracts",
                    "total_contracts", "win_rate_pct", "threshold_pct"})

\* The largest element of a non-empty set of numbers
MaxOf(S) == CHOOSE x \in S : \A y \in S : y <= x

MinOf(S) == CHOOSE x \in S : \A y \in S : x <= y

\* 5. SUPPLIER_CONCENTRATION
check_supplier_concentration(db, supplier_biin) ==
    LET mine == {k \in db.contracts : k.supplier_biin = supplier_biin /\ ~k.is_deleted}
        total == Cardinality(mine)
        cnt(cb) == Cardinality({k \in mine : k.customer_bin = cb})
    IN IF total < 5 THEN Result(FALSE, Float(0), {})
       ELSE LET top == MaxOf({cnt(k.customer_bin) : k \in mine})
            IN Result(10 * top > 8 * total, Float(RoundDiv(1000 * top, total)),
                      {"supplier_biin", "top_customer_bin", "top_customer_contracts",
                       "total_contracts", "concentration_pct"})

\* 7. WIN_MIN_THEN_ADDENDUM: the addendum is the child contract (parent_id =
\* contract_id) first by sign_date, NULLs last
check_win_min_then_addendum(db, contract_id) ==
    LET rows == {k \in db.contracts : k.id = contract_id}
    IN IF rows = {} THEN NoResult
       ELSE LET contract == CHOOSE k \in rows : TRUE
                children == {k \in db.contracts : k.parent_id = contract_id}
                dated == {k.sign_date : k \in {c \in children : c.sign_date # None}}
            IN IF contract.root_id = None \/ dated = {} \/ contract.sign_date = None
               THEN NoResult
               ELSE LET days_to_addendum == Days(MinOf(dated) - contract.sign_date)
                    IN Result(days_to_addendum <= 30, Float(days_to_addendum),
                              {"contract_sign_date", "addendum_sign_date",
                               "days_to_addendum", "addendum_sum"})

\* 8. WEIRD_EXECUTION_TIME
check_weird_execution_time(db, contract_id) ==
    LET rows == {k \in db.contracts : k.id = contract_id}
    IN IF rows = {} THEN NoResult
       ELSE LET row == CHOOSE k \in rows : TRUE
            IN IF row.sign_date = None \/ row.plan_exec_date = None THEN NoResult
               ELSE LET exec_days == Days(row.plan_exec_date - row.sign_date)
                    IN Result(exec_days < 7 \/ exec_days > 730, Float(exec_days),
                              {"sign_date", "plan_exec_date", "execution_days", "anomaly"})

\* 9. RNU_FLAG
check_rnu_flag(db, supplier_biin) ==
    LET flag == \E r \in db.rnu : r.supplier_biin = supplier_biin /\ r.is_active
    IN Result(flag, Float(IF flag THEN 1 ELSE 0),
              IF flag THEN {"rnu_id", "reason", "start_date", "system_id"} ELSE {})

\* 10. DUMPING_FLAG
check_dumping_flag(db, lot_id) ==
    LET rows == {l \in db.lots : l.id = lot_id}
    IN IF rows = {} THEN NoResult
       ELSE LET row == CHOOSE l \in rows : TRUE
            IN Result(row.dumping_flag, Float(IF row.dumping_flag THEN 1 ELSE 0),
                      {"lot_id", "dumping_flag", "lot_amount"})

\* The registry rows the query of NEW_COMPANY_BIG_CONTRACT may return as its
\* first (.limit(1) without an order): any row of the supplier, or none
SubjectsOf(db, supplier_biin) ==
    LET found == {s \in db.subject : s.bin = supplier_biin \/ s.iin = supplier_biin}
    IN IF found = {} THEN {<<>>} ELSE found

\* 11. NEW_COMPANY_BIG_CONTRACT, with the row its query returned
check_new_company_big_contract(row, supplier_biin, contract_sum, clock) ==
    IF row = <<>> THEN NoResult
    ELSE LET reg_date == IF row.regdate # None THEN row.regdate ELSE row.crdate
         IN IF reg_date = None THEN NoResult
            ELSE LET company_age_days == Days(clock - reg_date)
                 IN Result(company_age_days < 365 /\ contract_sum > 10000000,
                           Float(company_age_days),
                           {"supplier_biin", "company_name", "regdate", "company_age_days",
                            "contract_sum", "threshold_sum"})

\* 12. PAYMENT_WITHOUT_ACT: the count of acts is a textual query on a table
\* "acts", which raises when the schema has no such table
check_payment_without_act(db, contract_id) ==
    LET pays == {p \in db.treasury_pay : p.contract_id = contract_id}
        pay_count == Cardinality(pays)
    IN IF pay_count = 0 THEN Result(FALSE, Float(0), {})
       ELSE IF "acts" \notin Relations THEN Raised
       ELSE LET act_count == Cardinality({a \in db.acts : a.contract_id = contract_id})
            IN Result(pay_count > 0 /\ act_count = 0, Float(SumOf(pays, "pay_amount")),
                      {"contract_id", "payment_count", "total_paid", "act_count"})

\* 13. HIGH_WIN_RATE_FEW_BIDS
check_high_win_rate_few_bids(db, supplier_biin) ==
    LET tenders == {a.buy_id : a \in {x \in db.trd_app : x.supplier_biin = supplier_biin}}
                          \ {None}
        total_participated == Cardinality(tenders)
        total_won == Cardinality({k.trd_buy_id :
                                     k \in {c \in db.contracts :
                                               /\ c.supplier_biin = supplier_biin
                                               /\ ~c.is_deleted}} \ {None})
        bids == Cardinality({a \in db.trd_app : a.buy_id \in tenders})
    IN IF total_participated < 5 THEN Result(FALSE, Float(0), {})
       ELSE Result(10 * total_won > 9 * total_participated
                   /\ bids < 3 * Cardinality(tenders),
                   Float(RoundDiv(1000 * total_won, total_participated)),
                   {"supplier_biin", "total_participated", "total_won", "win_rate_pct",
                    "avg_bids_per_tender"})

\* 15. LAST_MINUTE_CHANGES
check_last_minute_changes(db, trd_buy_id) ==
    LET rows == {t \in db.trd_buy : t.id = trd_buy_id}
    IN IF rows = {} THEN NoResult
       ELSE LET row == CHOOSE t \in rows : TRUE
            IN IF row.end_date = None \/ row.last_update_at = None THEN NoResult
               ELSE LET hours_before_deadline == row.end_date - row.last_update_at
                    IN Result(0 < hours_before_deadline /\ hours_before_deadline < 24,
                              Float(10 * hours_before_deadline),
                              {"end_date", "last_update", "hours_before_deadline"})

\* .limit(50) of the CAROUSEL_PATTERN query
CarouselLimit == 50

RECURSIVE OrderBySignDate(_)
\* .order_by(Contract.sign_date): ascending, NULLs last.  The order among
\* equal dates is not specified by the query; the stores used here give the
\* contracts of one customer distinct dates.
OrderBySignDate(rows) ==
    IF rows = {} THEN <<>>
    ELSE LET dated == {k \in rows : k.sign_date # None}
             first == IF dated # {}
                      THEN CHOOSE k \in dated : \A o \in dated : k.sign_date <= o.sign_date
                      ELSE CHOOSE k \in rows : TRUE
         IN <<first>> \o OrderBySignDate(rows \ {first})

RECURSIVE Rotations(_, _)
\* rotations = 0; seen = set()
\* for s in suppliers: if s in seen: rotations += 1; seen = {s}  else: seen.add(s)
Rotations(suppliers, seen) ==
    IF suppliers = <<>> THEN 0
    ELSE IF Head(suppliers) \in seen
    THEN 1 + Rotations(Tail(suppliers), {Head(suppliers)})
    ELSE Rotations(Tail(suppliers), seen \cup {Head(suppliers)})

\* 14. CAROUSEL_PATTERN
check_carousel_pattern(db, customer_bin) ==
    LET rows == Limit(OrderBySignDate({k \in db.contracts :
                                          k.customer_bin = customer_bin /\ ~k.is_deleted}),
                      CarouselLimit)
        suppliers == [i \in 1..Len(rows) |-> rows[i].supplier_biin]
        unique_suppliers == {suppliers[i] : i \in 1..Len(suppliers)}
        rotations == Rotations(suppliers, {})
    IN IF Len(rows) < 6 THEN Result(FALSE, Float(0), {})
       ELSE IF Cardinality(unique_suppliers) < 2 THEN Result(FALSE, Float(0), {})
       ELSE Result(rotations >= 2 /\ Cardinality(unique_suppliers) >= 2, Float(rotations),
                   {"customer_bin", "unique_winners", "rotation_count", "winner_sequence"})

\* 16. COMMON_REQUISITES: phones and emails are the lists of the non-empty
\* values over the registry rows of the bidders; a value is common when the
\* list holds it more than once
check_common_requisites(db, trd_buy_id) ==
    LET biins == {a.supplier_biin : a \in {x \in db.trd_app : x.buy_id = trd_buy_id}}
                    \ {None}
        subjects == {s \in db.subject : s.bin \in biins \/ s.iin \in biins}
        count(col, v) == Cardinality({s \in subjects : s[col] = v})
        common(col) == {v \in {s[col] : s \in subjects} \ {None} : count(col, v) > 1}
    IN IF Cardinality(biins) < 2 THEN Result(FALSE, Float(0), {})
       ELSE Result(common("phone") # {} \/ common("email") # {},
                   Float(Cardinality(common("phone")) + Cardinality(common("email"))),
                   {"bidder_count", "common_phones", "common_emails"})

-----------------------------------------------------------------------------
(* One indicator called on a store                                         *)

TenderRow(id, start_date, end_date, last_update_at) ==
    [id |-> id, start_date |-> start_date, end_date |-> end_date,
     last_update_at |-> last_update_at]

ILotRow(id, trd_buy_id, amount, dumping_flag, is_deleted) ==
    [id |-> id, trd_buy_id |-> trd_buy_id, amount |-> amount,
     dumping_flag |-> dumping_flag, is_deleted |-> is_deleted]

AppRow(id, buy_id, supplier_biin) ==
    [id |-> id, buy_id |-> buy_id, supplier_biin |-> supplier_biin]

IContractRow(id, trd_buy_id, customer_bin, supplier_biin, contract_sum_wnds, sign_date, plan_exec_date, parent_id, root_id, is_deleted) ==
    [id |-> id, trd_buy_id |-> trd_buy_id, customer_bin |-> customer_bin,
     supplier_biin |-> supplier_biin, contract_sum_wnds |-> contract_sum_wnds,
     sign_date |-> sign_date, plan_exec_date |-> plan_exec_date,
     parent_id |-> parent_id, root_id |-> root_id, is_deleted |-> is_deleted]

SubjectRow(id, bin, iin, phone, email, regdate, crdate) ==
    [id |-> id, bin |-> bin, iin |-> iin, phone |-> phone, email |-> email,
     regdate |-> regdate, crdate |-> crdate]

RnuRow(id, supplier_biin, is_active) ==
    [id |-> id, supplier_biin |-> supplier_biin, is_active |-> is_active]

PayRow(id, contract_id, pay_amount) ==
    [id |-> id, contract_id |-> contract_id, pay_amount |-> pay_amount]

NoRows ==
    [trd_buy |-> {}, lots |-> {}, trd_app |-> {}, contracts |-> {}, subject |-> {},
     rnu |-> {}, treasury_pay |-> {}, acts |-> {}]

\* A store in which every indicator finds its data: tender 1 (two days of
\* bidding, last changed twelve hours before the deadline) with six small
\* lots and two bidders; supplier 1 bid alone on tenders 2..5 and holds five
\* of customer 1's six contracts; contract 1 is an addendum of contract 2,
\* has the child contract 3 and one payment; supplier 1 is a young company
\* in the registry of unreliable suppliers
FullDb ==
    [trd_buy |-> {TenderRow(1, 24, 72, 60)},
     lots |-> {ILotRow(i, 1, 2000000, i = 1, FALSE) : i \in 1..6},
     trd_app |-> {AppRow(i, i, 1) : i \in 1..5} \cup {AppRow(6, 1, 2)},
     contracts |->
        {IContractRow(i, i, 1, IF i = 6 THEN 2 ELSE 1,
                      IF i = 1 THEN 150 ELSE 100,
                      24 * i, 24 * (i + 3),
                      IF i = 3 THEN 1 ELSE None, IF i = 1 THEN 2 ELSE None, FALSE) :
            i \in 1..6},
     subject |-> {SubjectRow(1, 1, None, 7, 8, 48, 24), SubjectRow(2, 2, None, 7, None, None, 24)},
     rnu |-> {RnuRow(1, 1, TRUE)},
     treasury_pay |-> {PayRow(1, 1, 500)},
     acts |-> {}]

\* The tables other than contract, each present or empty
OptionalTables == {"trd_buy", "lots", "trd_app", "subject", "rnu", "treasury_pay"}

\* How many of the customer's contracts the store holds
ContractLevels == {0, 3, 6}

IndDbs ==
    {[t \in DOMAIN FullDb |->
         IF t = "contracts" THEN {k \in FullDb.contracts : k.id <= n}
         ELSE IF t \in present THEN FullDb[t] ELSE {}] :
        present \in SUBSET OptionalTables, n \in ContractLevels}

MaxArgId == 2

\* The arguments of a call
IndArgs ==
    [trd_buy_id : 1..MaxArgId, lot_id : 1..MaxArgId, contract_id : 1..MaxArgId,
     customer_bin : {1}, supplier_biin : 1..MaxArgId, contract_sum : {20000000}]

\* datetime.utcnow() at the call: day 100
IndClock == 2400

\* The results the indicator `code` may return on the store
CheckResults(db, code, a, clock) ==
    CASE code = "SHORT_DEADLINE" -> {check_short_deadline(db, a.trd_buy_id)}
      [] code = "FEW_BIDS" -> {check_few_bids(db, a.trd_buy_id)}
      [] code = "LOT_SPLITTING" -> {check_lot_splitting(db, a.trd_buy_id)}
      [] code = "RECURRING_WINNER" ->
            {check_recurring_winner(db, a.customer_bin, a.supplier_biin)}
      [] code = "SUPPLIER_CONCENTRATION" -> {check_supplier_concentration(db, a.supplier_biin)}
      [] code = "ADDENDUM_VALUE_INCREASE" -> {check_addendum_value_increase(db, a.contract_id)}
      [] code = "WIN_MIN_THEN_ADDENDUM" -> {check_win_min_then_addendum(db, a.contract_id)}
      [] code = "WEIRD_EXECUTION_TIME" -> {check_weird_execution_time(db, a.contract_id)}
      [] code = "RNU_FLAG" -> {check_rnu_flag(db, a.supplier_biin)}
      [] code = "DUMPING_FLAG" -> {check_dumping_flag(db, a.lot_id)}
      [] code = "NEW_COMPANY_BIG_CONTRACT" ->
            {check_new_company_big_contract(row, a.supplier_biin, a.contract_sum, clock) :
                row \in SubjectsOf(db, a.supplier_biin)}
      [] code = "PAYMENT_WITHOUT_ACT" -> {check_payment_without_act(db, a.contract_id)}
      [] code = "HIGH_WIN_RATE_FEW_BIDS" -> {check_high_win_rate_few_bids(db, a.supplier_biin)}
      [] code = "CAROUSEL_PATTERN" -> {check_carousel_pattern(db, a.customer_bin)}
      [] code = "LAST_MINUTE_CHANGES" -> {check_last_minute_changes(db, a.trd_buy_id)}
      [] code = "COMMON_REQUISITES" -> {check_common_requisites(db, a.trd_buy_id)}

\* await ind.check_*(db, ...), once on each store
IndCall(code, a) ==
    /\ ir = <<>>
    /\ \E res \in CheckResults(idb, code, a, IndClock) :
          ir' = [code |-> code, args |-> a, result |-> res]
    /\ UNCHANGED <<upstream, store, cursors, runs, now, pc, window, src, url, attempt,
                   lastErr, summary, journal_entries, idx, outcome, fb, hist, committed,
                   upsertVars, scoreVars, idb, ops>>

InitIndicators ==
    /\ InitIngest
    /\ upstream = [empty |-> <<"none", 0>>, short |-> "none"]
    /\ InitRisk
    /\ cfg = CHOOSE c \in Configs : c.low_max > 0 /\ Len(c.weights) = Len(IndicatorCodes)
    /\ sdb = EmptyDb
    /\ facts = {}
    /\ idb \in IndDbs
    /\ ir = <<>>

NextIndicators == \E code \in CodeSet, a \in IndArgs : IndCall(code, a)

SpecIndicators == InitIndicators /\ [][NextIndicators]_vars

\* Whether the linked data the indicator needs is missing from the store:
\* no tender row, no contract, no registry subject, no applications, no
\* payments, or fewer contracts than the minimum sample
C21_Missing(db, code, a) ==
    LET of_customer == {k \in db.contracts : k.customer_bin = a.customer_bin /\ ~k.is_deleted}
        of_supplier == {k \in db.contracts : k.supplier_biin = a.supplier_biin /\ ~k.is_deleted}
    IN CASE code \in {"SHORT_DEADLINE", "LAST_MINUTE_CHANGES"} ->
               ~\E t \in db.trd_buy : t.id = a.trd_buy_id
         [] code \in {"FEW_BIDS", "COMMON_REQUISITES"} ->
               ~\E x \in db.trd_app : x.buy_id = a.trd_buy_id
         [] code = "HIGH_WIN_RATE_FEW_BIDS" ->
               ~\E x \in db.trd_app : x.supplier_biin = a.supplier_biin
         [] code = "RECURRING_WINNER" -> Cardinality(of_customer) < 5
         [] code = "CAROUSEL_PATTERN" -> Cardinality(of_customer) < 6
         [] code = "SUPPLIER_CONCENTRATION" -> Cardinality(of_supplier) < 5
         [] code \in {"ADDENDUM_VALUE_INCREASE", "WIN_MIN_THEN_ADDENDUM",
                      "WEIRD_EXECUTION_TIME"} ->
               ~\E k \in db.contracts : k.id = a.contract_id
         [] code = "NEW_COMPANY_BIG_CONTRACT" ->
               ~\E s \in db.subject : s.bin = a.supplier_biin \/ s.iin = a.supplier_biin
         [] code = "PAYMENT_WITHOUT_ACT" ->
               ~\E p \in db.treasury_pay : p.contract_id = a.contract_id
         [] OTHER -> FALSE

\* C21 (as claimed): an indicator called when the linked data it needs is
\* missing raises no error and returns triggered = false, value = null and
\* empty evidence.
C21_MissingDataIsNoResult ==
    (ir # <<>> /\ C21_Missing(idb, ir.code, ir.args)) =>
        /\ ~ir.result.raised
        /\ ~ir.result.flag
        /\ ir.result.value = Null
        /\ ir.result.evidence = {}

-----------------------------------------------------------------------------
(* Claims about the batch entry point and the failure of a pass            *)

\* A call of FeatureEngine.run is under way or has returned
FeCalled == "all" \in DOMAIN fe

\* The passes the latest call of run has made so far
FePasses == SubSeq(sh, fe.from + 1, Len(sh))

\* C22: FeatureEngine.run attempts the lot ids of its input (the explicit
\* list, or else the non-deleted lots, at most 10000) once each and in
\* order; a pass that raises is counted under errors and the next lot is
\* attempted all the same; on return lots_processed + errors is the number
\* of ids attempted, which is the whole input.
C22_BatchToleratesFailures ==
    FeCalled =>
        /\ IF fe.entity_ids # <<>> THEN fe.all = fe.entity_ids
           ELSE /\ {fe.all[i] : i \in 1..Len(fe.all)}
                      = {l.id : l \in {x \in sdb.lots : ~x.is_deleted}}
                /\ \A i, j \in 1..Len(fe.all) : fe.all[i] = fe.all[j] => i = j
                /\ Len(fe.all) <= 10000
        /\ Len(FePasses) <= Len(fe.all)
        /\ \A i \in 1..Len(FePasses) : FePasses[i].lot_id = fe.all[i]
        /\ fe.lot_ids = SubSeq(fe.all, Len(FePasses) + 1, Len(fe.all))
        /\ fe.summary.errors = Cardinality({i \in 1..Len(FePasses) : FePasses[i].raised})
        /\ fe.summary.lots_processed + fe.summary.errors = Len(FePasses)
        /\ fe.pc = "idle" => Len(FePasses) = Len(fe.all)

\* C22 witness: run has returned from a list of two ids after the scoring of
\* the first one raised and the second one was processed
C22_Witness ==
    /\ FeCalled
    /\ fe.pc = "idle"
    /\ Len(fe.all) = 2
    /\ FePasses[1].raised
    /\ ~FePasses[2].raised
    /\ fe.summary = [lots_processed |-> 1, errors |-> 1]

-----------------------------------------------------------------------------
(* Claims about the durability of a page and about soft deletion           *)

\* Rows of page p of source s were committed by some invocation
RowsCommitted(s, p) ==
    \E w \in Windows :
        /\ <<s, p, w>> \in committed
        /\ PageRows(s, Response(upstream, s, p).items, w, 0) # {}

\* The stored cursor of source s designates a page after p
CursorPast(s, p) == cursors[CursorName[s]] # None /\ cursors[CursorName[s]] > p

\* C23 (as claimed): the upsert of a page's rows and the checkpoint of the
\* page's next-cursor become durable together: whenever the process has
\* stopped (returned, failed or interrupted between any two steps), for every
\* page that has a next-cursor, its rows are committed exactly if the
\* source's cursor has been advanced past it.
C23_PageAndCheckpointTogether ==
    pc = "idle" =>
        \A s \in SourceSet : \A p \in 1..NPages :
            (Response(upstream, s, p).next_page # None
             /\ PageRows(s, Response(upstream, s, p).items, <<1, 2>>, 0) # {})
            => (RowsCommitted(s, p) <=> CursorPast(s, p))

-----------------------------------------------------------------------------
(* IncrementalETL.run over a journal of change entries: the loop of run()  *)
(* from the point where get_journal has returned a list of entry dicts,    *)
(* with backfill page upserts arriving in between                          *)

MaxEntries == 2

\* Change entries: update and delete of a lot and a tender that upstream
\* holds, of a tender it does not hold, of entity types without a table
\* ("Rnu" for a delete) or without an endpoint ("Plan"), and entries that
\* lack the entity type or the entity id
EntryAlphabet ==
    {Entry("Lots", 1, "U"), Entry("Lots", 1, "D"), Entry("TrdBuy", 1, "D"),
     Entry("TrdBuy", 9, "D"), Entry("TrdBuy", 9, "U"), Entry("Rnu", 1, "D"),
     Entry("Plan", 1, "U"), Entry(NoEntityType, 1, "U"), Entry("Contract", None, "D")}

EntryLists == UNION {[1..n -> EntryAlphabet] : n \in 0..MaxEntries}

EntriesWindow == <<1, 2>>

PlainUpstream == [empty |-> <<"none", 0>>, short |-> "none"]

InitEntries ==
    /\ upstream = PlainUpstream
    /\ store \in {EmptyStore, WalkAll(EmptyStore, PlainUpstream, 1, EntriesWindow, 0)}
    /\ cursors = NoCursors
    /\ runs = StartRun(<<>>, "incremental", EntriesWindow)
    /\ now = 5
    /\ pc = "inc_loop"
    /\ window = EntriesWindow
    /\ src = 0
    /\ url = None
    /\ attempt = 0
    /\ lastErr = NoErr
    /\ summary = [processed |-> 0, updated |-> 0, deleted |-> 0, errors |-> 0]
    /\ journal_entries \in EntryLists
    /\ idx = 1
    /\ outcome = "none"
    /\ fb = [state |-> "idle"]
    /\ hist = <<[NewHist("incremental", EntriesWindow) EXCEPT
                    !.journal_ok = TRUE, !.journal = journal_entries]>>
    /\ committed = {}
    /\ ops = <<>>
    /\ target = "none"
    /\ table = {}
    /\ dl = [vers |-> [i \in 1..MaxRowId |-> {}], first |-> {}, last |-> <<>>]
    /\ InitRisk
    /\ InitNoCall
    /\ cfg = CHOOSE c \in Configs : c.low_max > 0 /\ Len(c.weights) = Len(IndicatorCodes)
    /\ sdb = EmptyDb
    /\ facts = {}

\* A backfill loader upserts and commits the batch of page p of source s
PageUpsert(s, p) ==
    /\ <<s, p, EntriesWindow>> \notin committed
    /\ LET items == Response(upstream, s, p).items
       IN /\ HasWrite(s, items, EntriesWindow)
          /\ store' = CommitPage(store, s, items, EntriesWindow, now)
          /\ ops' = Append(ops, [kind |-> "upsert", table |-> s,
                                 ids |-> {r.id : r \in PageRows(s, items, EntriesWindow, now)}])
    /\ committed' = committed \cup {<<s, p, EntriesWindow>>}
    /\ UNCHANGED <<upstream, cursors, runs, now, pc, window, src, url, attempt, lastErr,
                   summary, journal_entries, idx, outcome, fb, hist, upsertVars,
                   scoreVars, indVars>>

NextEntries ==
    \/ \E res \in {"obj", "absent", "raise"} : IncProcess(res)
    \/ IncUpdateCursor
    \/ IncFinish
    \/ \E s \in {"trd_buy", "lots"} : PageUpsert(s, 1)

SpecEntries == InitEntries /\ [][NextEntries]_vars

\* The tables whose rows carry is_deleted
SoftDeleteTables == {"trd_buy", "lots", "contract", "subject"}

\* C24: once a Tender, Lot, Contract or Subject row has is_deleted = true,
\* no backfill page upsert and no incremental update or delete of the same
\* id sets it back to false (or removes the row): in every step a deleted
\* row stays a deleted row.
C24_DeletedStaysDeleted ==
    [][\A t \in SoftDeleteTables : \A r \in store[t] :
          r.is_deleted =>
              /\ \E r2 \in store'[t] : r2.id = r.id
              /\ \A r2 \in store'[t] : r2.id = r.id => r2.is_deleted
      ]_vars

\* The positions of ops that touch the row id of table t
OpsOn(t, id) == SelectSeq(ops, LAMBDA o : o.table = t /\ id \in o.ids)

KindsOn(t, id) == [i \in 1..Len(OpsOn(t, id)) |-> OpsOn(t, id)[i].kind]

\* C24 witness: lot 1 was deleted and afterwards hit by an incremental
\* update and by a backfill page, and is still deleted, with the status the
\* later upserts carried
C24_Witness ==
    /\ KindsOn("lots", 1) = <<"delete", "upsert", "upsert">>
    /\ \E r \in store["lots"] : r.id = 1 /\ r.is_deleted /\ r.last_update_at # now

\* The row ids the ops may name
OpIds == 1..(MaxObjId + 2)

\* C25: a delete entry for an id that has no row changes no row; the first
\* upsert of an id creates its row with is_deleted = false; so of one delete
\* and one first upsert of the same id, the row ends deleted when the upsert
\* came first and not deleted when the delete came first.
C25_DeleteBeforeInsertIsLost ==
    LET start == hist[1].start_store
        fresh(t, id) == ~\E r \in start[t] : r.id = id
    IN /\ (\A i \in 1..Len(ops) :
              ops[i].kind = "delete" /\ \A id \in ops[i].ids : fresh(ops[i].table, id))
          => store = start
       /\ \A t \in SoftDeleteTables : \A id \in OpIds :
             fresh(t, id) =>
                /\ KindsOn(t, id) = <<"upsert">> =>
                      \E r \in store[t] : r.id = id /\ ~r.is_deleted
                /\ KindsOn(t, id) = <<"delete", "upsert">> =>
                      \E r \in store[t] : r.id = id /\ ~r.is_deleted
                /\ KindsOn(t, id) = <<"upsert", "delete">> =>
                      \E r \in store[t] : r.id = id /\ r.is_deleted
                /\ Cardinality({r \in store[t] : r.id = id}) <= 1

\* C25 witness: starting from empty tables, lot 1 was deleted before its
\* first upsert and tender 1 after it
C25_Witness ==
    /\ hist[1].start_store = EmptyStore
    /\ KindsOn("lots", 1) = <<"delete", "upsert">>
    /\ KindsOn("trd_buy", 1) = <<"upsert", "delete">>
    /\ \E r \in store["lots"] : r.id = 1 /\ ~r.is_deleted
    /\ \E r \in store["trd_buy"] : r.id = 1 /\ r.is_deleted

\* The entry names both an entity type and an entity id
C26_Named(entry) == entry.entity_type # NoEntityType /\ entry.entity_id # None

\* The attempted entries of the given kind that raised nothing and name
\* both an entity type and an entity id
C26_Counted(h, deletes) ==
    {i \in 1..Len(h.attempted) :
        /\ i \notin h.raisedAt
        /\ h.attempted[i].type = "dict"
        /\ C26_Named(h.attempted[i])
        /\ (h.attempted[i].action = "D") = deletes}

\* C26: at the end of an incremental run whose journal retrieval returned n
\* entries, processed + errors = n and updated + deleted <= processed;
\* deleted (updated) counts every delete (other) entry that names both an
\* entity type and an entity id and whose processing raised nothing,
\* whether or not it changed a row.
C26_SummaryCounts ==
    (Finished /\ outcome = "returned" /\ LastHist.kind = "incremental" /\ LastHist.journal_ok)
    => /\ LastRun.summary.processed + LastRun.summary.errors = Len(LastHist.journal)
       /\ LastRun.summary.updated + LastRun.summary.deleted <= LastRun.summary.processed
       /\ LastRun.summary.deleted = Cardinality(C26_Counted(LastHist, TRUE))
       /\ LastRun.summary.updated = Cardinality(C26_Counted(LastHist, FALSE))
       /\ LastRun.summary.errors = Cardinality(LastHist.raisedAt)

\* C26 witness: a run over two entries that changed no row, the delete of a
\* tender that has no row and the update of an entity type without an
\* endpoint, has returned with both counted
C26_Witness ==
    /\ Finished
    /\ outcome = "returned"
    /\ LastHist.attempted = <<Entry("TrdBuy", 9, "D"), Entry("Plan", 1, "U")>>
    /\ LastRun.summary = [processed |-> 2, updated |-> 1, deleted |-> 1, errors |-> 0]
    /\ store = LastHist.start_store

\* C26, the other cases reached: an entry without entity type was processed
\* and counted under neither updated nor deleted, next to one that raised
C26_UnnamedNotCounted ==
    /\ Finished
    /\ outcome = "returned"
    /\ LastHist.attempted = <<Entry(NoEntityType, 1, "U"), Entry("Lots", 1, "U")>>
    /\ LastRun.summary = [processed |-> 1, updated |-> 0, deleted |-> 0, errors |-> 1]

\* ---------------------------------------------------------------------------
\* A raising pass of compute_lot_score

\* The step appended a pass that raised
C27_RaisedStep == Len(sh') = Len(sh) + 1 /\ sh'[Len(sh')].raised

\* C27: a pass of compute_lot_score that raised, in an indicator or in a
\* write, leaves the Risk Flag and Risk Score tables as they were (nothing of
\* the pass is persisted, the rows of earlier passes are unchanged), a step
\* never changes one of the two tables alone, and FeatureEngine.run counts the
\* lot of a raising pass under errors and not under lots_processed.
C27_RaisingPassPersistsNothing ==
    [][/\ C27_RaisedStep =>
             /\ risk_flags' = risk_flags
             /\ risk_scores' = risk_scores
             /\ fe.pc = "loop" =>
                   /\ fe'.summary.errors = fe.summary.errors + 1
                   /\ fe'.summary.lots_processed = fe.summary.lots_processed
       /\ (risk_flags' # risk_flags) <=> (risk_scores' # risk_scores)]_vars

\* C27 witness: run counted under errors a lot whose pass raised in an
\* indicator, before anything was computed, and the risk tables hold no row
\* of that lot
C27_Witness ==
    /\ fe.pc = "loop" /\ fe.summary.errors >= 1
    /\ \E i \in 1..Len(sh) :
          /\ sh[i].found /\ sh[i].raised /\ ~sh[i].scored
          /\ \A j \in 1..Len(risk_flags) : risk_flags[j].row.entity_id # Str(sh[i].lot_id)
          /\ \A r \in risk_scores : r.entity_id # Str(sh[i].lot_id)

\* A pass raised in a write, after its flags and score were computed
C27_WriteRaised ==
    \E i \in 1..Len(sh) : sh[i].scored /\ sh[i].raised /\ sh[i].flags # <<>>

-----------------------------------------------------------------------------
(* CAROUSEL_PATTERN on contract histories                                  *)

\* The longest of the short contract histories
MaxContracts == 7

\* One contract of a history: won by supplier 1 or 2 for customer 1, live or
\* soft-deleted, or a contract of another customer
ContractKinds ==
    {[customer_bin |-> 1, supplier_biin |-> 1, is_deleted |-> FALSE],
     [customer_bin |-> 1, supplier_biin |-> 2, is_deleted |-> FALSE],
     [customer_bin |-> 1, supplier_biin |-> 1, is_deleted |-> TRUE],
     [customer_bin |-> 2, supplier_biin |-> 1, is_deleted |-> FALSE]}

\* The contract table holding a history: the i-th contract signed on day i
HistoryDb(h) ==
    [NoRows EXCEPT !.contracts =
        {IContractRow(i, i, h[i].customer_bin, h[i].supplier_biin, 100, 24 * i,
                      24 * (i + 3), None, None, h[i].is_deleted) : i \in 1..Len(h)}]

ShortHistories == UNION {[1..n -> ContractKinds] : n \in 0..MaxContracts}

\* Histories that reach the limit of the query: customer 1's live contracts,
\* a new supplier each time, and at the end one or two contracts that go
\* either to the previous winner or to yet another supplier
LongHistories ==
    {[i \in 1..(CarouselLimit - 1 + Len(t)) |->
         [customer_bin |-> 1,
          supplier_biin |-> IF i < CarouselLimit THEN i
                            ELSE IF t[i - CarouselLimit + 1] THEN CarouselLimit - 1
                            ELSE i,
          is_deleted |-> FALSE]] :
        t \in [1..1 -> BOOLEAN] \cup [1..2 -> BOOLEAN]}

CarouselDbs == {HistoryDb(h) : h \in ShortHistories \cup LongHistories}

\* The arguments of a call about customer 1, supplier 1, tender 1
FirstArgs ==
    [trd_buy_id |-> 1, lot_id |-> 1, contract_id |-> 1, customer_bin |-> 1,
     supplier_biin |-> 1, contract_sum |-> 20000000]

InitCarousel ==
    /\ InitIngest
    /\ upstream = [empty |-> <<"none", 0>>, short |-> "none"]
    /\ InitRisk
    /\ cfg = CHOOSE c \in Configs : c.low_max > 0 /\ Len(c.weights) = Len(IndicatorCodes)
    /\ sdb = EmptyDb
    /\ facts = {}
    /\ idb \in CarouselDbs
    /\ ir = <<>>

NextCarousel == IndCall("CAROUSEL_PATTERN", FirstArgs)

SpecCarousel == InitCarousel /\ [][NextCarousel]_vars

\* The suppliers of the customer's n most recent non-deleted contracts, in
\* chronological order
C28_Recent(db, customer_bin, n) ==
    LET all == OrderBySignDate({k \in db.contracts :
                                   k.customer_bin = customer_bin /\ ~k.is_deleted})
        skip == IF Len(all) > n THEN Len(all) - n ELSE 0
    IN [i \in 1..(Len(all) - skip) |-> all[i + skip].supplier_biin]

\* The rotation count of a sequence: the scan keeps the window of positions
\* since the last repeat; a supplier already in the window counts one and
\* starts the window anew at its position
C28_RotationCount(s) ==
    LET scan[i \in 0..Len(s)] ==
            IF i = 0 THEN [count |-> 0, from |-> 1]
            ELSE LET p == scan[i - 1]
                 IN IF \E j \in p.from..(i - 1) : s[j] = s[i]
                    THEN [count |-> p.count + 1, from |-> i]
                    ELSE p
    IN scan[Len(s)].count

\* C28 (as claimed): check_carousel_pattern is triggered iff the customer's
\* 50 most recent non-deleted contracts, in chronological order, are at
\* least 6, name at least 2 distinct suppliers and have a rotation count of
\* at least 2.
C28_CarouselOnMostRecent ==
    (ir # <<>> /\ ir.code = "CAROUSEL_PATTERN") =>
        LET s == C28_Recent(idb, ir.args.customer_bin, CarouselLimit)
        IN ir.result.flag <=>
              /\ Len(s) >= 6
              /\ Cardinality({s[i] : i \in 1..Len(s)}) >= 2
              /\ C28_RotationCount(s) >= 2

\* With no more contracts than the limit the result is the claimed one
C28_WithinLimit ==
    (/\ ir # <<>> /\ ir.code = "CAROUSEL_PATTERN"
     /\ Cardinality({k \in idb.contracts : k.customer_bin = 1 /\ ~k.is_deleted})
           <= CarouselLimit)
    => LET s == C28_Recent(idb, ir.args.customer_bin, CarouselLimit)
       IN ir.result.flag <=>
             /\ Len(s) >= 6
             /\ Cardinality({s[i] : i \in 1..Len(s)}) >= 2
             /\ C28_RotationCount(s) >= 2

-----------------------------------------------------------------------------
(* COMMON_REQUISITES on bidders and their registry records                 *)

\* The most registry records a store holds
MaxSubjects == 3

\* One registry record: of company 1 or 2, with a phone or none, with an
\* email or none.  The registry is keyed by pid, so one BIN may have several
\* records.
SubjectKinds == [bin : {1, 2}, phone : {None, 7, 9}, email : {None, 8}]

\* The suppliers that may have applied to tender 1
Bidders == {1, 2, 3}

RequisitesDb(b, recs) ==
    [NoRows EXCEPT
        !.trd_app = {AppRow(s, 1, s) : s \in b},
        !.subject = {SubjectRow(i, recs[i].bin, None, recs[i].phone, recs[i].email,
                                None, None) : i \in 1..Len(recs)}]

RequisitesDbs ==
    {RequisitesDb(b, recs) :
        b \in SUBSET Bidders, recs \in UNION {[1..n -> SubjectKinds] : n \in 0..MaxSubjects}}

InitRequisites ==
    /\ InitIngest
    /\ upstream = [empty |-> <<"none", 0>>, short |-> "none"]
    /\ InitRisk
    /\ cfg = CHOOSE c \in Configs : c.low_max > 0 /\ Len(c.weights) = Len(IndicatorCodes)
    /\ sdb = EmptyDb
    /\ facts = {}
    /\ idb \in RequisitesDbs
    /\ ir = <<>>

NextRequisites == IndCall("COMMON_REQUISITES", FirstArgs)

SpecRequisites == InitRequisites /\ [][NextRequisites]_vars

\* The bidders of the tender and the registry records of a bidder
C29_Bidders(db, trd_buy_id) ==
    {x.supplier_biin : x \in {y \in db.trd_app : y.buy_id = trd_buy_id}} \ {None}

C29_Records(db, b) == {s \in db.subject : s.bin = b \/ s.iin = b}

\* Two distinct bidders have records with the same non-empty phone or the
\* same non-empty email
C29_Shared(db, trd_buy_id) ==
    \E b1, b2 \in C29_Bidders(db, trd_buy_id) :
        /\ b1 # b2
        /\ \E r1 \in C29_Records(db, b1), r2 \in C29_Records(db, b2) :
              \/ r1.phone # None /\ r1.phone = r2.phone
              \/ r1.email # None /\ r1.email = r2.email

\* C29 (as claimed): check_common_requisites is triggered iff at least two
\* distinct bidders of the tender have registry records with the same
\* non-empty phone or the same non-empty email; a value repeated only among
\* the records of one bidder does not trigger it.
C29_SharedByTwoBidders ==
    (ir # <<>> /\ ir.code = "COMMON_REQUISITES") =>
        (ir.result.flag <=> C29_Shared(idb, ir.args.trd_buy_id))

\* Whenever two distinct bidders share a contact the indicator is triggered
C29_SharedIsFlagged ==
    (ir # <<>> /\ ir.code = "COMMON_REQUISITES" /\ C29_Shared(idb, ir.args.trd_buy_id))
        => ir.result.flag

-----------------------------------------------------------------------------
(* RECURRING_WINNER on contract histories                                  *)

WinnerDbs == {HistoryDb(h) : h \in ShortHistories}

InitWinner ==
    /\ InitIngest
    /\ upstream = [empty |-> <<"none", 0>>, short |-> "none"]
    /\ InitRisk
    /\ cfg = CHOOSE c \in Configs : c.low_max > 0 /\ Len(c.weights) = Len(IndicatorCodes)
    /\ sdb = EmptyDb
    /\ facts = {}
    /\ idb \in WinnerDbs
    /\ ir = <<>>

NextWinner ==
    \E supplier_biin \in 1..MaxArgId :
        IndCall("RECURRING_WINNER", [FirstArgs EXCEPT !.supplier_biin = supplier_biin])

SpecWinner == InitWinner /\ [][NextWinner]_vars

\* The customer's contracts that are not soft-deleted, and those of them the
\* supplier won
C30_Live(db, customer_bin) ==
    {k \in db.contracts : k.customer_bin = customer_bin} \ {k \in db.contracts : k.is_deleted}

C30_Won(db, customer_bin, supplier_biin) ==
    {k \in C30_Live(db, customer_bin) : k.supplier_biin = supplier_biin}

\* C30: check_recurring_winner is triggered iff the customer has at least 5
\* non-deleted contracts and the supplier won strictly more than 70% of
\* them, soft-deleted contracts counted in neither number; with 5 of 6 won
\* it returns triggered = true and value 83.3.
C30_RecurringWinner ==
    (ir # <<>> /\ ir.code = "RECURRING_WINNER") =>
        LET n == Cardinality(C30_Live(idb, ir.args.customer_bin))
            w == Cardinality(C30_Won(idb, ir.args.customer_bin, ir.args.supplier_biin))
        IN /\ ir.result.flag <=> (n >= 5 /\ 100 * w > 70 * n)
           /\ (n = 6 /\ w = 5) => (ir.result.flag /\ ir.result.value = Float(833))

\* C30 witness: the supplier won 5 of the customer's 6 live contracts, the
\* store also holds a soft-deleted contract of the customer, and the call
\* returned triggered with value 83.3
C30_Witness ==
    /\ ir # <<>> /\ ir.code = "RECURRING_WINNER"
    /\ Cardinality(C30_Live(idb, ir.args.customer_bin)) = 6
    /\ Cardinality(C30_Won(idb, ir.args.customer_bin, ir.args.supplier_biin)) = 5
    /\ \E k \in idb.contracts : k.customer_bin = ir.args.customer_bin /\ k.is_deleted
    /\ ir.result.flag
    /\ ir.result.value = Float(833)

\* Below the minimum sample: 4 of 4 live contracts won is not triggered
C30_BelowMinimum ==
    /\ ir # <<>> /\ ir.code = "RECURRING_WINNER"
    /\ Cardinality(C30_Live(idb, ir.args.customer_bin)) = 4
    /\ Cardinality(C30_Won(idb, ir.args.customer_bin, ir.args.supplier_biin)) = 4
    /\ ~ir.result.flag

====
